---- MODULE Spec2Model ----
(***************************************************************************)
(* Model of mdtest's command execution: the persistent sessions            *)
(* (CmdSession over pipes, PtySession over a pseudo-terminal), the block   *)
(* runner that drives them, and the one-shot bash mode with its saved      *)
(* session state.                                                          *)
(*                                                                         *)
(* Time is counted in polls: one unit is the 10 ms of Bun.sleep(10) in the *)
(* wait loops.  Text is a sequence of tokens: one token is one character,  *)
(* except the three introducers "OSC133;" (ESC ] 1 3 3 ;), "CSI" (ESC [)   *)
(* and "BEL" (\x07), which stand for the byte sequences the regular        *)
(* expressions of the source spell out.                                    *)
(***************************************************************************)
EXTENDS Integers, Sequences, FiniteSets, TLC

(***************************************************************************)
(* Bounds of the model.                                                    *)
(***************************************************************************)
MinWait == 2
MaxWait == 4
StartupDelay == 2
MaxJitter == 1
MaxChunks == 2
NumCommands == 2
MaxCloseCalls == 1
MaxRawLen == 6

MaxRuns == 3

(***************************************************************************)
(* Program constants, in polls of 10 ms.                                   *)
(***************************************************************************)
StartupFloor == 500
GraceSleep == 2
PollSleep == 1

(***************************************************************************)
(* Text helpers.                                                           *)
(***************************************************************************)
Upper == {"A", "C", "D"}
Lower == {"x", "c"}
Digit == {"0", "1"}

Max(a, b) == IF a >= b THEN a ELSE b

\* s.slice(i): the tokens of s from the 1-based position i on.
SliceFrom(s, i) == IF i > Len(s) THEN <<>> ELSE SubSeq(s, i, Len(s))

\* The least position >= i of s that holds token t, or 0.
RECURSIVE IndexOf(_, _, _)
IndexOf(s, t, i) ==
  IF i > Len(s) THEN 0
  ELSE IF s[i] = t THEN i
  ELSE IndexOf(s, t, i + 1)

\* The first position > i of s that does not hold a token of set S.
RECURSIVE SkipSet(_, _, _)
SkipSet(s, S, i) ==
  IF i + 1 <= Len(s) /\ s[i + 1] \in S THEN SkipSet(s, S, i + 1) ELSE i + 1

\* haystack.includes(needle)
Includes(hay, needle) ==
  \E i \in 1..(Len(hay) + 1) :
     /\ i + Len(needle) - 1 <= Len(hay)
     /\ SubSeq(hay, i, i + Len(needle) - 1) = needle

\* parseInt(text, 10) for a text matched by -?\d+
RECURSIVE DigitsValue(_)
DigitsValue(s) ==
  IF s = <<>> THEN 0
  ELSE 10 * DigitsValue(SubSeq(s, 1, Len(s) - 1))
         + (IF s[Len(s)] = "1" THEN 1 ELSE 0)

parseInt(s) ==
  IF s # <<>> /\ s[1] = "-" THEN 0 - DigitsValue(Tail(s)) ELSE DigitsValue(s)

(***************************************************************************)
(* OSC 133 patterns.                                                       *)
(***************************************************************************)
\* OSC_133_A_PATTERN.test(s)
OSC_133_A_PATTERN(s) ==
  \E i \in 1..Len(s) :
     i + 2 <= Len(s) /\ s[i] = "OSC133;" /\ s[i + 1] = "A" /\ s[i + 2] = "BEL"

\* The end of a match of OSC_133_D_PATTERN that starts at i, or 0.
\* /\x1b\]133;D(?:;(-?\d+))?\x07/
MatchDAt(s, i) ==
  IF ~(i + 1 <= Len(s) /\ s[i] = "OSC133;" /\ s[i + 1] = "D") THEN 0
  ELSE IF i + 2 <= Len(s) /\ s[i + 2] = "BEL" THEN i + 2
  ELSE IF i + 2 <= Len(s) /\ s[i + 2] = ";"
    THEN LET d == IF i + 3 <= Len(s) /\ s[i + 3] = "-" THEN i + 4 ELSE i + 3
             e == SkipSet(s, Digit, d - 1)
         IN  IF e > d /\ e <= Len(s) /\ s[e] = "BEL" THEN e ELSE 0
  ELSE 0

\* s.match(OSC_133_D_PATTERN): the first match, with its index and group 1.
RECURSIVE MatchDFrom(_, _)
MatchDFrom(s, i) ==
  IF i > Len(s) THEN [found |-> FALSE, index |-> 0, group |-> <<>>]
  ELSE IF MatchDAt(s, i) # 0
    THEN [found |-> TRUE, index |-> i,
          group |-> IF MatchDAt(s, i) = i + 2 THEN <<>>
                    ELSE SubSeq(s, i + 3, MatchDAt(s, i) - 1)]
  ELSE MatchDFrom(s, i + 1)

OSC_133_D_PATTERN(s) == MatchDFrom(s, 1)

\* exitCode = match[1] ? parseInt(match[1], 10) : 0
MarkerExitCode(m) == IF m.group # <<>> THEN parseInt(m.group) ELSE 0

\* The end of a match of OSC_133_ANY_PATTERN that starts at i, or 0.
\* /\x1b\]133;[A-Z](?:;[^\x07]*)?\x07/
MatchAnyAt(s, i) ==
  IF ~(i + 1 <= Len(s) /\ s[i] = "OSC133;" /\ s[i + 1] \in Upper) THEN 0
  ELSE IF i + 2 <= Len(s) /\ s[i + 2] = "BEL" THEN i + 2
  ELSE IF i + 2 <= Len(s) /\ s[i + 2] = ";" THEN IndexOf(s, "BEL", i + 3)
  ELSE 0

\* s.replace(OSC_133_ANY_PATTERN, ""), one pass from the left (flag g).
RECURSIVE StripOscFrom(_, _)
StripOscFrom(s, i) ==
  IF i > Len(s) THEN <<>>
  ELSE IF MatchAnyAt(s, i) # 0 THEN StripOscFrom(s, MatchAnyAt(s, i) + 1)
  ELSE <<s[i]>> \o StripOscFrom(s, i + 1)

StripOsc(s) == StripOscFrom(s, 1)

\* The end of a match of ANSI_ESCAPE_PATTERN that starts at i, or 0.
\* /\x1b\[[0-9;]*[A-Za-z]/ ; the class [0-9;]* holds no letter, so the
\* greedy run is followed by the letter or the match fails.
MatchAnsiAt(s, i) ==
  IF s[i] # "CSI" THEN 0
  ELSE LET e == SkipSet(s, Digit \cup {";"}, i)
       IN  IF e <= Len(s) /\ s[e] \in (Upper \cup Lower) THEN e ELSE 0

RECURSIVE StripAnsiFrom(_, _)
StripAnsiFrom(s, i) ==
  IF i > Len(s) THEN <<>>
  ELSE IF MatchAnsiAt(s, i) # 0 THEN StripAnsiFrom(s, MatchAnsiAt(s, i) + 1)
  ELSE <<s[i]>> \o StripAnsiFrom(s, i + 1)

StripAnsiEscapes(s) == StripAnsiFrom(s, 1)

\* s.replace(/\r\n/g, "\n").replace(/\r/g, "\n")
RECURSIVE NormalizeLineEndings(_)
NormalizeLineEndings(s) ==
  IF s = <<>> THEN <<>>
  ELSE IF s[1] = "\r" /\ Len(s) >= 2 /\ s[2] = "\n"
    THEN <<"\n">> \o NormalizeLineEndings(SubSeq(s, 3, Len(s)))
  ELSE IF s[1] = "\r" THEN <<"\n">> \o NormalizeLineEndings(Tail(s))
  ELSE <<s[1]>> \o NormalizeLineEndings(Tail(s))

\* lines = s.split("\n"); if lines[0] includes the command, lines.shift();
\* lines.join("\n")
RemoveEcho(s, command) ==
  LET nl    == IndexOf(s, "\n", 1)
      first == IF nl = 0 THEN s ELSE SubSeq(s, 1, nl - 1)
  IN  IF Includes(first, command)
        THEN (IF nl = 0 THEN <<>> ELSE SliceFrom(s, nl + 1))
        ELSE s


(***************************************************************************)
(* Expected lines and their matching.  An expected line is a sequence of   *)
(* tokens: one token is one character, except the capture tokens and the   *)
(* two wildcards, which stand for the character sequences TOKEN_RE and the *)
(* wildcard expression of compileExpectedLineToRegex recognise.  An actual *)
(* line is a sequence of characters.                                       *)
(***************************************************************************)
CapNames == {"id"}

CaptureTokens == {"{{id}}", "{{id:*}}", "{{id:/./}}"}

WildcardTokens == {"...", "[...]"}

\* Groups 1 and 2 of a match of TOKEN_RE.
TokenName(t) == "id"

TokenSpec(t) ==
  CASE t = "{{id}}"   -> "undefined"
    [] t = "{{id:*}}" -> "*"
    [] OTHER          -> "/./"

\* An entry of a Record<string, string>: undefined, or a string.
Undefined == [bound |-> FALSE, val |-> <<>>]

Defined(v) == [bound |-> TRUE, val |-> v]

NoCaps == [k \in CapNames |-> Undefined]

\* The characters of the class \s that the texts of the model hold.
Whitespace == {" ", "\t", "\r", "\n"}

\* s.replace(/\s+$/g, "")
RECURSIVE normLine(_)
normLine(s) ==
  IF s # <<>> /\ s[Len(s)] \in Whitespace
    THEN normLine(SubSeq(s, 1, Len(s) - 1))
  ELSE s

\* s.trim()
RECURSIVE trimStart(_)
trimStart(s) ==
  IF s # <<>> /\ s[1] \in Whitespace THEN trimStart(Tail(s)) ELSE s

\* s.replace(/\r\n/g, "\n")
RECURSIVE ReplaceCrLf(_)
ReplaceCrLf(s) ==
  IF s = <<>> THEN <<>>
  ELSE IF s[1] = "\r" /\ Len(s) >= 2 /\ s[2] = "\n"
    THEN <<"\n">> \o ReplaceCrLf(SubSeq(s, 3, Len(s)))
  ELSE <<s[1]>> \o ReplaceCrLf(Tail(s))

\* s.split("\n")
RECURSIVE SplitLines(_)
SplitLines(s) ==
  LET nl == IndexOf(s, "\n", 1)
  IN  IF nl = 0 THEN <<s>>
      ELSE <<SubSeq(s, 1, nl - 1)>> \o SplitLines(SliceFrom(s, nl + 1))

\* s.replace(/\r\n/g, "\n").split("\n").map(normLine)
splitNorm(s) ==
  LET lines == SplitLines(ReplaceCrLf(s))
  IN  [i \in 1..Len(lines) |-> normLine(lines[i])]

\* while (lines.length > 0 && lines[lines.length - 1] === "") lines.pop()
RECURSIVE PopEmpty(_)
PopEmpty(lines) ==
  IF lines # <<>> /\ lines[Len(lines)] = <<>>
    THEN PopEmpty(SubSeq(lines, 1, Len(lines) - 1))
  ELSE lines

trim(s) == trimStart(normLine(s))

\* The pieces of a compiled pattern: a literal character, one arbitrary
\* character (.), one or more arbitrary characters (.+), the named group
\* around one of the two, the end assertion ($), and a piece no actual
\* line can match (text in characters that no actual line holds).
Lit(c) == [t |-> "lit", c |-> c]

AnyChar == [t |-> "any", c |-> ""]

Plus == [t |-> "plus", c |-> ""]

Group(sub) == [t |-> "group", c |-> sub]

EndAnchor == [t |-> "end", c |-> ""]

Never == [t |-> "never", c |-> ""]

\* escapeRegex: every character of s comes out as a literal.
escapeRegex(s) == [i \in 1..Len(s) |-> Lit(s[i])]

\* One character of a pattern line after the escaping of the characters
\* special to a regex: it stands for itself.
EscapeLiteral_Raw(c) == IF c = "$" THEN EndAnchor ELSE Lit(c)

EscapeLiteral(c) == Lit(c)

\* line.length >= 2 && line.startsWith("/") && line.endsWith("/")
IsWholeLineRegex(line) ==
  Len(line) >= 2 /\ line[1] = "/" /\ line[Len(line)] = "/"

\* The source between the slashes of a whole-line regex, as the RegExp
\* constructor reads it: $ asserts the end, ... is three arbitrary
\* characters, [...] is the class of the dot, braces are literal text.
RECURSIVE RegexSource(_)
RegexSource(s) ==
  IF s = <<>> THEN <<>>
  ELSE (CASE s[1] = "$"             -> <<EndAnchor>>
          [] s[1] = "..."           -> <<AnyChar, AnyChar, AnyChar>>
          [] s[1] = "[...]"         -> <<Lit(".")>>
          [] s[1] \in CaptureTokens -> <<Never>>
          [] OTHER                  -> <<Lit(s[1])>>) \o RegexSource(Tail(s))

\* escaped.replace(tag, `(?:${escapeRegex(prev)})`): the fragment is the
\* replacement string of String.prototype.replace, in which $& stands for
\* the matched tag, a backslash before it notwithstanding.
RECURSIVE ReplacementFrags(_)
ReplacementFrags(prev) ==
  IF prev = <<>> THEN <<>>
  ELSE IF prev[1] = "$" /\ Len(prev) >= 2 /\ prev[2] = "&"
    THEN <<Never>> \o ReplacementFrags(SubSeq(prev, 3, Len(prev)))
  ELSE <<escapeRegex(prev)[1]>> \o ReplacementFrags(Tail(prev))

\* The fragment of one token of a pattern line.
TokenFrags(t, caps) ==
  IF t \in CaptureTokens
    THEN (CASE TokenSpec(t) = "undefined" ->
                 IF caps[TokenName(t)].bound
                   THEN ReplacementFrags(caps[TokenName(t)].val)
                   ELSE <<Group("plus")>>
            [] TokenSpec(t) = "*" -> <<Group("plus")>>
            [] OTHER              -> <<Group("any")>>)
  ELSE IF t \in WildcardTokens THEN <<Plus>>
  ELSE <<EscapeLiteral(t)>>

RECURSIVE LineFrags(_, _)
LineFrags(line, caps) ==
  IF line = <<>> THEN <<>>
  ELSE TokenFrags(line[1], caps) \o LineFrags(Tail(line), caps)

\* compileExpectedLineToRegex: the pattern, the names it captures, and
\* whether new RegExp throws (two groups of one name).
compileExpectedLineToRegex(line, caps) ==
  IF IsWholeLineRegex(line)
    THEN [re |-> RegexSource(SubSeq(line, 2, Len(line) - 1)),
          keys |-> <<>>, throws |-> FALSE]
  ELSE LET re   == LineFrags(line, caps)
           grps == SelectSeq(re, LAMBDA f : f.t = "group")
       IN  [re |-> re,
            keys |-> [i \in 1..Len(grps) |-> "id"],
            throws |-> Len(grps) >= 2]

\* a.match(re) for the anchored pattern, from piece i and position p on:
\* whether it matches and what the group holds.  A quantifier takes the
\* longest run with which the rest still matches.
RECURSIVE Try(_, _, _, _)
Try(re, i, a, p) ==
  IF i > Len(re) THEN [ok |-> p = Len(a) + 1, val |-> <<>>]
  ELSE LET f    == re[i]
           fail == [ok |-> FALSE, val |-> <<>>]
       IN  CASE f.t = "lit" ->
                  IF p <= Len(a) /\ a[p] = f.c THEN Try(re, i + 1, a, p + 1)
                  ELSE fail
             [] f.t = "any" ->
                  IF p <= Len(a) THEN Try(re, i + 1, a, p + 1) ELSE fail
             [] f.t = "end" ->
                  IF p = Len(a) + 1 THEN Try(re, i + 1, a, p) ELSE fail
             [] f.t = "never" -> fail
             [] OTHER ->
                  LET most == IF f.t = "group" /\ f.c = "any" THEN 1
                              ELSE Len(a) - p + 1
                      good == {n \in 1..most :
                                 /\ p + n - 1 <= Len(a)
                                 /\ Try(re, i + 1, a, p + n).ok}
                  IN  IF good = {} THEN fail
                      ELSE LET n == CHOOSE m \in good :
                                       \A o \in good : o <= m
                           IN  IF f.t = "group"
                                 THEN [ok |-> TRUE,
                                       val |-> SubSeq(a, p, p + n - 1)]
                                 ELSE Try(re, i + 1, a, p + n)

RegexMatch(re, a) == Try(re, 1, a, 1)

\* The result of matchLines, with the table as the call leaves it.
Matched(caps) == [ok |-> TRUE, msg |-> "none", caps |-> caps]

Failed(msg, caps) == [ok |-> FALSE, msg |-> msg, caps |-> caps]

\* e.trim() === "[...]" || e.trim() === "..."
IsEllipsis_NoTrim(e) == e \in {<<"...">>, <<"[...]">>}

IsEllipsis(e) == trim(e) \in {<<"...">>, <<"[...]">>}

\* for (let k = j; k <= actual.length; k++): how many actual lines the
\* wildcard takes.
Splits_NotZero(actual) == 1..Len(actual)

Splits(actual) == 0..Len(actual)

\* The loop over keys: a name not in the table is written, a name in the
\* table must have captured the value the table holds.
Commit_Overwrite(caps, keys, val) ==
  IF keys = <<>> THEN [ok |-> TRUE, caps |-> caps]
  ELSE [ok |-> TRUE, caps |-> [caps EXCEPT ![keys[1]] = Defined(val)]]

Commit(caps, keys, val) ==
  IF keys = <<>> THEN [ok |-> TRUE, caps |-> caps]
  ELSE LET k == keys[1] IN
    IF ~caps[k].bound
      THEN [ok |-> TRUE, caps |-> [caps EXCEPT ![k] = Defined(val)]]
    ELSE [ok |-> caps[k].val = val, caps |-> caps]

\* After the loop: if (j !== actual.length).
AfterLoop_Lenient(actual, caps) == Matched(caps)

AfterLoop(actual, caps) ==
  IF actual = <<>> THEN Matched(caps)
  ELSE Failed("extra actual lines", caps)

\* The loop of matchLines over the remaining expected and actual lines.
\* "throw" is the SyntaxError of new RegExp leaving the call.
RECURSIVE MatchFrom(_, _, _)
MatchFrom(expected, actual, caps) ==
  IF expected = <<>> THEN AfterLoop(actual, caps)
  ELSE LET e == Head(expected) IN
    IF IsEllipsis(e)
      THEN LET tail  == Tail(expected)
               \* probe = matchLines(tail, actual.slice(k), { ...caps })
               probe(k) == MatchFrom(tail, SliceFrom(actual, k + 1), caps)
               stops == {k \in Splits(actual) :
                           probe(k).ok \/ probe(k).msg = "throw"}
           IN  IF tail = <<>> THEN Matched(caps)
               ELSE IF stops = {} THEN Failed("ellipsis could not align", caps)
               ELSE LET k == CHOOSE m \in stops : \A o \in stops : m <= o
                    IN  IF probe(k).ok THEN Matched(caps)
                        ELSE Failed("throw", caps)
    ELSE IF actual = <<>> THEN Failed("missing actual line", caps)
    ELSE LET a        == Head(actual)
             compiled == compileExpectedLineToRegex(e, caps)
             m        == RegexMatch(compiled.re, a)
             done     == Commit(caps, compiled.keys, m.val)
         IN  IF compiled.throws THEN Failed("throw", caps)
             ELSE IF ~m.ok THEN Failed("line mismatch", caps)
             ELSE IF ~done.ok THEN Failed("capture mismatch", caps)
             ELSE MatchFrom(Tail(expected), Tail(actual), done.caps)

matchLines(expectedRaw, actualRaw, caps) ==
  MatchFrom([i \in 1..Len(expectedRaw) |-> normLine(expectedRaw[i])],
            [i \in 1..Len(actualRaw) |-> normLine(actualRaw[i])], caps)

(***************************************************************************)
(* State.                                                                  *)
(***************************************************************************)
VARIABLES
  usePty,          \* runBlock: PtySession (TRUE) or CmdSession (FALSE)
  useOsc133,       \* CmdSession.useOsc133
  stdoutBuffer,    \* CmdSession.stdoutBuffer / PtySession.outputBuffer
  stderrBuffer,    \* CmdSession.stderrBuffer
  firstExecute,
  closed,
  readerActive,    \* CmdSession: the two background readers still loop
  procExited,      \* proc.exitCode !== null
  pc,              \* where the running execute call is suspended
  command,         \* the argument of the running execute call
  elapsed,         \* Date.now() - startTime of the running wait
  lastOutputTime,  \* kept relative to startTime
  lastLen,
  exitCode,
  arrived,         \* tokens appended since the last command was written
  sentAt,          \* length of stdoutBuffer when that command was written
  result,          \* what the last execute call returned
  stdinLog,        \* the commands written to the subprocess, in order
  inFlight,        \* execute calls that have not resolved
  stdinEnds, terminalCloses, kills, closeCalls,
  closing,         \* where close() is: "none", "race", "done"
  cmdIdx,          \* runBlock: commands for which execute was called
  threw,           \* runBlock: an execute call rejected
  rb,              \* runBlock: "loop", "finally", "returned", "threw"
  emitted,         \* chunks the subprocess has written
  markers          \* the commands the subprocess has answered with a Done
                   \* marker, and the command each Done marker of
                   \* stdoutBuffer was written for (0: for none)

sessionVars == <<usePty, useOsc133, stdoutBuffer, stderrBuffer, firstExecute,
                 closed, readerActive, procExited, pc, command, elapsed,
                 lastOutputTime, lastLen, exitCode, arrived, sentAt,
                 result, stdinLog, inFlight, stdinEnds, terminalCloses,
                 kills, closeCalls, closing, cmdIdx, threw, rb, emitted,
                 markers>>

(***************************************************************************)
(* State of the one-shot bash mode: the three state files of a document,   *)
(* the options of the block being run, and the last command's process.     *)
(***************************************************************************)
VARIABLES
  envFile,         \* per exported name: "absent", "bare" (a line without
                   \* a value) or the value
  cwdFile,
  funcFile,        \* the names of the functions defined in the file
  blockOpts,       \* parseInfo of the block being run
  lastRun,         \* the process of the last command and its ShellResult
  ran,             \* commands run so far
  sinceReset       \* clearState has run since the last command

shellVars == <<envFile, cwdFile, funcFile, blockOpts, lastRun, ran,
               sinceReset>>

\* The capture table of the document being run, and the last call of
\* matchLines made on it: its arguments, the table it was given, and what
\* it returned.
VARIABLES
  capsStdout,
  call

matchVars == <<capsStdout, call>>

\* The run of the documents given to the runner.
VARIABLES
  runner,     \* "cli": testFile; "framework": registerBunTests
  phase,      \* where the runner is in its loop over documents and blocks
  docs,       \* documents started in this run
  docPath,    \* the path of the current document
  disk,       \* the state files left in the state directory, by name
  blocks,     \* blocks (cli) or steps (framework) of the document done
  inBlock,    \* commands of the current block or step that have run
  firstStep,  \* the current step is the first of its block
  shape,      \* the headings and blocks of the document, in source order
  log         \* what was invoked for the document so far, in order

docVars == <<runner, phase, docs, docPath, disk, blocks, inBlock, firstStep,
             shape, log>>

\* One document judged block by block, and the tally of the run.
VARIABLES
  md,            \* the lines of the document
  cursor,        \* testFile: the index i of the loop over the fences
  judged,        \* the last block judged: its steps, results and verdict
  verdicts,      \* per fence met: "pass", "fail", or "skip" (no command)
  replacements,  \* testFile: the rewritten fences of the failed blocks
  update,        \* the UPDATE switch of the command line
  written,       \* applyReplacements: the document as written back
  failures,      \* the failed blocks: failures of testFile, fails of main
  total,         \* main: the blocks of the documents run
  exitStatus     \* the status the process ended with, -1 while it runs

fileVars == <<md, cursor, judged, verdicts, replacements, update, written,
              failures, total, exitStatus>>

\* runBlock: the stdout of the last ShellResult and the lines made of it.
VARIABLES
  split

vars == <<sessionVars, shellVars, matchVars, docVars, fileVars, split>>

(***************************************************************************)
(* What the subprocess may write, and the commands of the block.           *)
(***************************************************************************)
ReadyMarker == <<"OSC133;", "A", "BEL">>
StartMarker == <<"OSC133;", "C", "BEL">>
DoneMarker  == <<"OSC133;", "D", "BEL">>
DoneMarker1 == <<"OSC133;", "D", ";", "1", "BEL">>

StdoutChunks == {<<"x">>, ReadyMarker, DoneMarker, DoneMarker1}
StderrChunks == {<<"x">>}

CommandText(i) == IF i % 2 = 1 THEN <<"c">> ELSE <<"c", "c">>

NoMarkers == [answered |-> 0, inBuffer |-> <<>>]

\* The subprocess answers the commands in the order it reads them: a Done
\* marker is for the oldest command written that has none yet.
DoneChunk(chunk) == chunk \in {DoneMarker, DoneMarker1}

MarkersAfterEmit(m, chunk, sent) ==
  IF ~DoneChunk(chunk) THEN m
  ELSE IF m.answered < sent
    THEN [answered |-> m.answered + 1,
          inBuffer |-> Append(m.inBuffer, m.answered + 1)]
  ELSE [m EXCEPT !.inBuffer = Append(@, 0)]

\* The markers of a buffer go when the buffer is cleared.
MarkersAfterClear(m, before, after) ==
  IF after = before THEN m ELSE [m EXCEPT !.inBuffer = <<>>]

NoResult == [stdout |-> <<>>, stderr |-> <<>>, exitCode |-> 0,
             how |-> "none", raw |-> <<>>, elapsed |-> 0, arrived |-> 0,
             sentAt |-> 0,
             seq |-> 0]

(***************************************************************************)
(* The completion loop of execute.                                         *)
(***************************************************************************)
\* The marker protocol is looked at: always by PtySession, by CmdSession
\* when useOsc133 is set.
MarkerMode == usePty \/ useOsc133

\* Variant: the exit code starts at the timeout code of the one-shot mode.
ExitCodeAfter_TimeoutCode(out, ec) ==
  IF MarkerMode /\ OSC_133_D_PATTERN(out).found
    THEN MarkerExitCode(OSC_133_D_PATTERN(out))
    ELSE 124

\* The exit code after the marker check of one iteration.
ExitCodeAfter(out, ec) ==
  IF MarkerMode /\ OSC_133_D_PATTERN(out).found
    THEN MarkerExitCode(OSC_133_D_PATTERN(out))
    ELSE ec

\* The marker check breaks the loop.
DoneByMarker(out) ==
  LET m == OSC_133_D_PATTERN(out)
  IN  IF usePty THEN m.found
      ELSE /\ useOsc133
           /\ m.found
           /\ OSC_133_A_PATTERN(SliceFrom(out, m.index))

\* Variant: silence is accepted before any output.
DoneBySilence_NoOutputCheck(silenceTime, currentLen) ==
  /\ usePty \/ ~useOsc133
  /\ silenceTime >= MinWait

\* The silence check breaks the loop.
DoneBySilence(silenceTime, currentLen) ==
  /\ usePty \/ ~useOsc133
  /\ silenceTime >= MinWait
  /\ currentLen > 0

\* Variant: the ceiling is compared with > instead of >=.
DoneByMaxWait_Strict(el) == el > MaxWait

\* The ceiling check breaks the loop.
DoneByMaxWait(el) == el >= MaxWait

\* One iteration of the loop at time el, up to the sleep.
LoopStep(out, err, el, lo, ll, ec) ==
  LET currentLen == Len(out) + Len(err)
      lo1 == IF currentLen > ll THEN el ELSE lo
      ll1 == IF currentLen > ll THEN currentLen ELSE ll
  IN  [brk  |-> \/ DoneByMarker(out)
                \/ DoneBySilence(el - lo1, currentLen)
                \/ DoneByMaxWait(el),
       how  |-> IF DoneByMarker(out) THEN "marker"
                ELSE IF DoneBySilence(el - lo1, currentLen) THEN "silence"
                ELSE IF DoneByMaxWait(el) THEN "maxwait"
                ELSE "none",
       exitCode |-> ExitCodeAfter(out, ec),
       lastOutputTime |-> lo1,
       lastLen |-> ll1]

\* The text execute returns for the buffers out and err.
Output(out, err, cmd) ==
  IF usePty
    THEN [stdout |-> RemoveEcho(NormalizeLineEndings(
                       StripAnsiEscapes(StripOsc(out))), cmd),
          stderr |-> <<>>]
    ELSE [stdout |-> IF useOsc133 THEN StripOsc(out) ELSE out,
          stderr |-> IF useOsc133 THEN StripOsc(err) ELSE err]

\* After an iteration: return the result or sleep.
Continue(r, out, err, el, cmd, arr, sent, n, fl) ==
  /\ IF r.brk
       THEN /\ pc' = "idle"
            /\ elapsed' = 0
            /\ lastOutputTime' = 0
            /\ lastLen' = 0
            /\ exitCode' = 0
            /\ inFlight' = fl - 1
            /\ result' = [stdout |-> Output(out, err, cmd).stdout,
                          stderr |-> Output(out, err, cmd).stderr,
                          exitCode |-> r.exitCode,
                          how |-> r.how, raw |-> out, elapsed |-> el,
                          arrived |-> arr, sentAt |-> sent,
                          seq |-> n]
       ELSE /\ pc' = "wait"
            /\ elapsed' = el
            /\ lastOutputTime' = r.lastOutputTime
            /\ lastLen' = r.lastLen
            /\ exitCode' = r.exitCode
            /\ inFlight' = fl
            /\ result' = result

\* execute after the readiness wait: clear the buffers, write the command,
\* run the first iteration of the loop.
SendCommand(out, err, isFirst, cmd, fl) ==
  LET keep == ~usePty /\ isFirst /\ useOsc133
      out1 == IF usePty \/ keep THEN out ELSE <<>>
      err1 == IF usePty \/ keep THEN err ELSE <<>>
  IN  /\ firstExecute' = FALSE
      /\ \E fails \in (IF usePty /\ procExited THEN BOOLEAN ELSE {FALSE}) :
           IF usePty /\ (closed \/ fails)
             THEN \* throw new Error(...)
                  /\ stdoutBuffer' = out1
                  /\ stderrBuffer' = err1
                  /\ pc' = "idle"
                  /\ inFlight' = fl - 1
                  /\ threw' = TRUE
                  /\ elapsed' = 0
                  /\ UNCHANGED <<stdinLog, arrived, sentAt, lastOutputTime,
                                 lastLen, exitCode, result>>
             ELSE /\ stdoutBuffer' = out1
                  /\ stderrBuffer' = err1
                  /\ stdinLog' = Append(stdinLog, cmd)
                  /\ arrived' = 0
                  /\ sentAt' = Len(out1)
                  /\ threw' = threw
                  /\ Continue(LoopStep(out1, err1, 0, 0, 0, 0),
                              out1, err1, 0, cmd, 0, Len(out1),
                              Len(stdinLog) + 1, fl)

\* One iteration of waitForReady at time el, up to its sleep.
WaitForReadyStep(el, cmd, fl) ==
  IF usePty
    THEN LET timeout == IF firstExecute THEN StartupDelay ELSE MinWait
         IN  IF OSC_133_A_PATTERN(stdoutBuffer)
               THEN SendCommand(<<>>, <<>>, firstExecute, cmd, fl)
             ELSE IF Len(stdoutBuffer) > 0
               THEN /\ pc' = "grace"
                    /\ elapsed' = el
                    /\ inFlight' = fl
                    /\ UNCHANGED <<stdoutBuffer, stderrBuffer, firstExecute,
                                   stdinLog, arrived, sentAt,
                                   lastOutputTime, lastLen, exitCode, result,
                                   threw>>
             ELSE IF el >= timeout
               THEN SendCommand(<<>>, <<>>, firstExecute, cmd, fl)
             ELSE /\ pc' = "ready"
                  /\ elapsed' = el
                  /\ inFlight' = fl
                  /\ UNCHANGED <<stdoutBuffer, stderrBuffer, firstExecute,
                                 stdinLog, arrived, sentAt,
                                 lastOutputTime, lastLen, exitCode, result,
                                 threw>>
    ELSE IF \/ OSC_133_A_PATTERN(stdoutBuffer)
            \/ el >= Max(MaxWait, StartupFloor)
           THEN SendCommand(stdoutBuffer, stderrBuffer, TRUE, cmd, fl)
         ELSE /\ pc' = "ready"
              /\ elapsed' = el
              /\ inFlight' = fl
              /\ UNCHANGED <<stdoutBuffer, stderrBuffer, firstExecute,
                             stdinLog, arrived, sentAt, lastOutputTime,
                             lastLen, exitCode, result, threw>>

(***************************************************************************)
(* Actions of the session and of runBlock.                                 *)
(***************************************************************************)
\* Variant: the execute calls are not awaited.
AwaitResolved_Missing == TRUE

\* runBlock goes on after `await session.execute(cmd)` once it resolved.
AwaitResolved == inFlight = 0

\* runBlock calls session.execute for the next command of the block.
ExecuteCall ==
  /\ rb = "loop"
  /\ ~threw
  /\ cmdIdx < NumCommands
  /\ AwaitResolved
  /\ cmdIdx' = cmdIdx + 1
  /\ command' = CommandText(cmdIdx + 1)
  /\ IF usePty
       THEN WaitForReadyStep(0, command', inFlight + 1)
     ELSE IF firstExecute /\ useOsc133
       THEN WaitForReadyStep(0, command', inFlight + 1)
     ELSE IF firstExecute /\ StartupDelay > 0
       THEN /\ pc' = "startup"
            /\ elapsed' = 0
            /\ inFlight' = inFlight + 1
            /\ UNCHANGED <<stdoutBuffer, stderrBuffer, firstExecute,
                           stdinLog, arrived, sentAt, lastOutputTime,
                           lastLen, exitCode, result, threw>>
     ELSE SendCommand(stdoutBuffer, stderrBuffer, firstExecute, command',
                      inFlight + 1)
  /\ markers' = MarkersAfterClear(markers, stdoutBuffer, stdoutBuffer')
  /\ UNCHANGED <<usePty, useOsc133, closed, readerActive, procExited,
                 stdinEnds, terminalCloses, kills, closeCalls, closing, rb,
                 emitted>>
  /\ UNCHANGED <<shellVars, matchVars, docVars, fileVars, split>>

\* waitForReady wakes up from Bun.sleep(10).
ReadyPoll ==
  /\ pc = "ready"
  /\ \E d \in 0..MaxJitter :
       WaitForReadyStep(elapsed + PollSleep + d, command, inFlight)
  /\ markers' = MarkersAfterClear(markers, stdoutBuffer, stdoutBuffer')
  /\ UNCHANGED <<usePty, useOsc133, closed, readerActive, procExited,
                 command, stdinEnds, terminalCloses, kills, closeCalls,
                 closing, cmdIdx, rb, emitted>>
  /\ UNCHANGED <<shellVars, matchVars, docVars, fileVars, split>>

\* PtySession.waitForReady wakes up from Bun.sleep(20) and clears the buffer.
GraceDone ==
  /\ pc = "grace"
  /\ SendCommand(<<>>, <<>>, firstExecute, command, inFlight)
  /\ markers' = MarkersAfterClear(markers, stdoutBuffer, stdoutBuffer')
  /\ UNCHANGED <<usePty, useOsc133, closed, readerActive, procExited,
                 command, stdinEnds, terminalCloses, kills, closeCalls,
                 closing, cmdIdx, rb, emitted>>
  /\ UNCHANGED <<shellVars, matchVars, docVars, fileVars, split>>

\* CmdSession.execute wakes up from Bun.sleep(startupDelay).
StartupDone ==
  /\ pc = "startup"
  /\ SendCommand(stdoutBuffer, stderrBuffer, TRUE, command, inFlight)
  /\ markers' = MarkersAfterClear(markers, stdoutBuffer, stdoutBuffer')
  /\ UNCHANGED <<usePty, useOsc133, closed, readerActive, procExited,
                 command, stdinEnds, terminalCloses, kills, closeCalls,
                 closing, cmdIdx, rb, emitted>>
  /\ UNCHANGED <<shellVars, matchVars, docVars, fileVars, split>>

\* Variant: the session is closed when execute returns at the ceiling.
CompletionPoll_ClosesOnTimeout ==
  /\ pc = "wait"
  /\ \E d \in 0..MaxJitter :
       Continue(LoopStep(stdoutBuffer, stderrBuffer,
                         elapsed + PollSleep + d, lastOutputTime, lastLen,
                         exitCode),
                stdoutBuffer, stderrBuffer, elapsed + PollSleep + d,
                command, arrived, sentAt, Len(stdinLog), inFlight)
  /\ closed' = (closed \/ (pc' = "idle" /\ result'.how = "maxwait"))
  /\ UNCHANGED markers
  /\ UNCHANGED <<usePty, useOsc133, stdoutBuffer, stderrBuffer, firstExecute,
                 readerActive, procExited, command, arrived, sentAt,
                 stdinLog, stdinEnds, terminalCloses, kills,
                 closeCalls, closing, cmdIdx, threw, rb, emitted>>
  /\ UNCHANGED <<shellVars, matchVars, docVars, fileVars, split>>

\* The completion loop wakes up from Bun.sleep(10) and runs an iteration.
CompletionPoll ==
  /\ pc = "wait"
  /\ \E d \in 0..MaxJitter :
       Continue(LoopStep(stdoutBuffer, stderrBuffer,
                         elapsed + PollSleep + d, lastOutputTime, lastLen,
                         exitCode),
                stdoutBuffer, stderrBuffer, elapsed + PollSleep + d,
                command, arrived, sentAt, Len(stdinLog), inFlight)
  /\ UNCHANGED markers
  /\ UNCHANGED <<usePty, useOsc133, stdoutBuffer, stderrBuffer, firstExecute,
                 closed, readerActive, procExited, command, arrived, sentAt,
                 stdinLog, stdinEnds, terminalCloses, kills,
                 closeCalls, closing, cmdIdx, threw, rb, emitted>>
  /\ UNCHANGED <<shellVars, matchVars, docVars, fileVars, split>>

\* The subprocess writes a chunk to its standard output; the background
\* reader (the terminal's data callback) appends it to the buffer.
EmitStdout ==
  /\ ~procExited
  /\ emitted < MaxChunks
  /\ IF usePty THEN ~closed ELSE readerActive.stdout
  /\ \E chunk \in StdoutChunks :
       /\ stdoutBuffer' = stdoutBuffer \o chunk
       /\ arrived' = arrived + Len(chunk)
       /\ sentAt' = sentAt
       /\ markers' = MarkersAfterEmit(markers, chunk, Len(stdinLog))
  /\ readerActive' = IF usePty THEN readerActive
                     ELSE [readerActive EXCEPT !.stdout = ~closed]
  /\ emitted' = emitted + 1
  /\ UNCHANGED <<usePty, useOsc133, stderrBuffer, firstExecute, closed,
                 procExited, pc, command, elapsed, lastOutputTime, lastLen,
                 exitCode, result, stdinLog, inFlight, stdinEnds,
                 terminalCloses, kills, closeCalls, closing, cmdIdx, threw,
                 rb>>
  /\ UNCHANGED <<shellVars, matchVars, docVars, fileVars, split>>

\* The subprocess writes a chunk to its standard error (pipes only).
EmitStderr ==
  /\ ~procExited
  /\ emitted < MaxChunks
  /\ ~usePty
  /\ readerActive.stderr
  /\ \E chunk \in StderrChunks :
       /\ stderrBuffer' = stderrBuffer \o chunk
       /\ arrived' = arrived + Len(chunk)
       /\ sentAt' = sentAt
  /\ readerActive' = [readerActive EXCEPT !.stderr = ~closed]
  /\ emitted' = emitted + 1
  /\ UNCHANGED markers
  /\ UNCHANGED <<usePty, useOsc133, stdoutBuffer, firstExecute, closed,
                 procExited, pc, command, elapsed, lastOutputTime, lastLen,
                 exitCode, result, stdinLog, inFlight, stdinEnds,
                 terminalCloses, kills, closeCalls, closing, cmdIdx, threw,
                 rb>>
  /\ UNCHANGED <<shellVars, matchVars, docVars, fileVars, split>>

\* The subprocess terminates by itself; its streams end.
ProcExit ==
  /\ ~procExited
  /\ procExited' = TRUE
  /\ readerActive' = [stdout |-> FALSE, stderr |-> FALSE]
  /\ UNCHANGED markers
  /\ UNCHANGED <<usePty, useOsc133, stdoutBuffer, stderrBuffer, firstExecute,
                 closed, pc, command, elapsed, lastOutputTime, lastLen,
                 exitCode, arrived, sentAt, result, stdinLog, inFlight,
                 stdinEnds, terminalCloses, kills, closeCalls, closing,
                 cmdIdx, threw, rb, emitted>>
  /\ UNCHANGED <<shellVars, matchVars, docVars, fileVars, split>>

\* Variant: close() without its guard.
AlreadyClosed_Missing == FALSE

\* `if (this.closed) return` at the head of close().
AlreadyClosed == closed

\* get isRunning
isRunning == ~closed /\ ~procExited

\* close() is called: by the finally of runBlock, and again by the caller.
CloseCall ==
  /\ \/ rb = "loop" /\ inFlight = 0 /\ (cmdIdx = NumCommands \/ threw)
     \/ rb # "loop" /\ closeCalls < 1 + MaxCloseCalls
  /\ closeCalls' = closeCalls + 1
  /\ rb' = IF rb = "loop" THEN "finally" ELSE rb
  /\ IF AlreadyClosed
       THEN UNCHANGED <<closed, stdinEnds, terminalCloses, closing>>
       ELSE /\ closed' = TRUE
            /\ stdinEnds' = IF usePty THEN stdinEnds ELSE stdinEnds + 1
            /\ terminalCloses' = IF usePty THEN terminalCloses + 1
                                 ELSE terminalCloses
            /\ closing' = "race"
  /\ UNCHANGED markers
  /\ UNCHANGED <<usePty, useOsc133, stdoutBuffer, stderrBuffer, firstExecute,
                 readerActive, procExited, pc, command, elapsed,
                 lastOutputTime, lastLen, exitCode, arrived, sentAt,
                 result, stdinLog, inFlight, kills, cmdIdx, threw, emitted>>
  /\ UNCHANGED <<shellVars, matchVars, docVars, fileVars, split>>

\* close(): the race between proc.exited and the 1000 ms timer is decided.
\* CmdSession kills on timeout only and awaits the exit; PtySession kills
\* in both cases and returns without awaiting the exit.
CloseRace ==
  /\ closing = "race"
  /\ closing' = "done"
  /\ kills' = IF usePty \/ ~procExited THEN kills + 1 ELSE kills
  /\ procExited' = IF usePty THEN procExited ELSE TRUE
  /\ readerActive' = [stdout |-> FALSE, stderr |-> FALSE]
  /\ UNCHANGED markers
  /\ UNCHANGED <<usePty, useOsc133, stdoutBuffer, stderrBuffer, firstExecute,
                 closed, pc, command, elapsed, lastOutputTime, lastLen,
                 exitCode, arrived, sentAt, result, stdinLog, inFlight,
                 stdinEnds, terminalCloses, closeCalls, cmdIdx, threw, rb,
                 emitted>>
  /\ UNCHANGED <<shellVars, matchVars, docVars, fileVars, split>>

\* runBlock: `await session.close()` resolved; return or rethrow.
RunBlockEnd ==
  /\ rb = "finally"
  /\ closing = "done"
  /\ rb' = IF threw THEN "threw" ELSE "returned"
  /\ UNCHANGED markers
  /\ UNCHANGED <<usePty, useOsc133, stdoutBuffer, stderrBuffer, firstExecute,
                 closed, readerActive, procExited, pc, command, elapsed,
                 lastOutputTime, lastLen, exitCode, arrived, sentAt,
                 result, stdinLog, inFlight, stdinEnds, terminalCloses,
                 kills, closeCalls, closing, cmdIdx, threw, emitted>>
  /\ UNCHANGED <<shellVars, matchVars, docVars, fileVars, split>>

(***************************************************************************)
(* One-shot bash mode.  Every command of a block is a bash process of its  *)
(* own, running the script buildScript wraps around it; the shell state    *)
(* travels from one process to the next through the three state files.     *)
(***************************************************************************)
Names == {"FOO"}

Values == {"a", "b"}

Dirs == {"start", "sub"}

Funcs == {"helper"}

\* process.cwd() of the runner.
RunnerCwd == "start"

\* The runner's own environment exports none of Names.
RunnerEnv == [n \in Names |-> "absent"]

\* The options of a fence, as parseInfo returns them.
BlockOptions ==
  [reset : BOOLEAN, cwd : {"none", "sub"}, env : {"none"} \cup Values]

\* The commands of the documents: what the body does to the shell state,
\* how the process ends, and the status it ends with.
Effects ==
  {[op |-> "none", arg |-> "none"], [op |-> "unset", arg |-> "none"],
   [op |-> "exportBare", arg |-> "none"]}
    \cup {[op |-> "export", arg |-> v] : v \in Values}
    \cup {[op |-> "cd", arg |-> d] : d \in Dirs}
    \cup {[op |-> "define", arg |-> f] : f \in Funcs}

Commands ==
  [eff : Effects, end : {"normal", "exit", "hang"}, status : {0, 1}]

\* `set -a; . envFile; set +a`: a line NAME="value" exports the name, a
\* line holding a bare NAME is run as a command and sets nothing.
LoadEnv(base, file) ==
  [n \in Names |->
     IF file[n] \in {"absent", "bare"} THEN base[n] ELSE file[n]]

\* `export -p | sed -E 's/^declare -x //g'`: one line per exported name,
\* without a value when the name has none.
SaveEnv(env) == [n \in Names |-> env[n]]

\* The pre section: the saved state is loaded, then the options of the
\* block are applied.
ScriptPre(opts, envF, cwdF, funcF) ==
  [env |-> [n \in Names |->
              IF opts.env # "none" THEN opts.env
              ELSE LoadEnv(RunnerEnv, envF)[n]],
   cwd |-> IF opts.cwd # "none" THEN opts.cwd ELSE cwdF,
   funcs |-> funcF]

\* The body: the command itself.
ScriptBody(st, eff) ==
  CASE eff.op = "export"     -> [st EXCEPT !.env = [n \in Names |-> eff.arg]]
    [] eff.op = "exportBare" ->
         [st EXCEPT !.env = [n \in Names |->
                               IF st.env[n] = "absent" THEN "bare"
                               ELSE st.env[n]]]
    [] eff.op = "unset"      -> [st EXCEPT !.env = [n \in Names |-> "absent"]]
    [] eff.op = "cd"         -> [st EXCEPT !.cwd = eff.arg]
    [] eff.op = "define"     -> [st EXCEPT !.funcs = st.funcs \cup {eff.arg}]
    [] OTHER                 -> st

\* The post section runs when the body hands control on to it: not when
\* the body called exit, and not when it was still running at the timeout.
PostRuns(cmd) == cmd.end = "normal"

\* bunShell: the exit code of the process, or 124 when it was killed at
\* the timeout.
TimeoutExitCode == 124

\* Variant: the exit status of the script at the timeout as well.
ShellExitCode_NoTimeoutCode(cmd) == cmd.status

ShellExitCode(cmd) ==
  IF cmd.end = "hang" THEN TimeoutExitCode ELSE cmd.status

\* bunShell: the stderr of the result, which is the text "Command timed
\* out after <timeout>ms" at the timeout; the commands of the model write
\* nothing to stderr.
ShellStderr(cmd) == IF cmd.end = "hang" THEN "timed out" ELSE ""

\* bunShell: proc.kill() is called at the timeout, and only there.
ShellKilled(cmd) == cmd.end = "hang"

\* bunShell: the result is returned after `await proc.exited` resolved,
\* except at the timeout.
ShellAwaitedExit(cmd) == cmd.end # "hang"

\* TestSession.buildCommandScript: the status the script exits with.  The
\* line of the afterEach hook, `[ -f f ] && source f 2>/dev/null || true`,
\* stands between the command and `_EXIT=$?` when the hook is registered.
CommandScriptExit(cmd, afterEach) ==
  IF cmd.end = "exit" THEN cmd.status
  ELSE IF afterEach THEN 0
  ELSE cmd.status

NoRun ==
  [cmd |-> [eff |-> [op |-> "none", arg |-> "none"], end |-> "normal",
            status |-> 0],
   startEnv |-> RunnerEnv, endEnv |-> RunnerEnv, endCwd |-> RunnerCwd,
   endFuncs |-> {}, exitCode |-> 0, stderr |-> "", killed |-> FALSE,
   awaitedExit |-> TRUE, via |-> "none"]

\* The per-block prologue of testFile, and block() of the bash plugin: a
\* reset block clears the state files before its commands run, and
\* testFile empties the capture tables with them.
StartBlock(opts) ==
  /\ blockOpts' = opts
  /\ IF opts.reset
     THEN /\ envFile' = [n \in Names |-> "absent"]
          /\ cwdFile' = RunnerCwd
          /\ funcFile' = {}
          /\ sinceReset' = TRUE
     ELSE UNCHANGED <<envFile, cwdFile, funcFile, sinceReset>>
  /\ capsStdout' = IF opts.reset /\ runner = "cli" THEN NoCaps
                   ELSE capsStdout
  /\ UNCHANGED <<lastRun, ran, call>>
  /\ UNCHANGED sessionVars

\* One command of the block in bash mode: the script is built, run by
\* bunShell and its result pushed.
RunCommand(cmd) ==
  /\ ran < MaxRuns
  /\ lastRun.via # "TestSession"
  /\ LET st0 == ScriptPre(blockOpts, envFile, cwdFile, funcFile)
         st1 == ScriptBody(st0, cmd.eff)
     IN /\ IF PostRuns(cmd)
           THEN /\ envFile' = SaveEnv(st1.env)
                /\ cwdFile' = st1.cwd
                /\ funcFile' = st1.funcs
           ELSE UNCHANGED <<envFile, cwdFile, funcFile>>
        /\ lastRun' = [cmd |-> cmd, startEnv |-> st0.env,
                       endEnv |-> st1.env, endCwd |-> st1.cwd,
                       endFuncs |-> st1.funcs,
                       exitCode |-> ShellExitCode(cmd),
                       stderr |-> ShellStderr(cmd),
                       killed |-> ShellKilled(cmd),
                       awaitedExit |-> ShellAwaitedExit(cmd),
                       via |-> "runBlock"]
  /\ ran' = ran + 1
  /\ sinceReset' = FALSE
  /\ UNCHANGED blockOpts
  /\ UNCHANGED <<sessionVars, matchVars>>

\* TestSession.runCommand: the script of buildCommandScript is run by the
\* shell adapter.  The session has state files of its own and no block
\* options; afterEach tells whether a hook file of that name was added.
SessionRunCommand(cmd, afterEach) ==
  /\ ran < MaxRuns
  /\ lastRun.via # "runBlock"
  /\ ~sinceReset
  /\ LET none == [reset |-> FALSE, cwd |-> "none", env |-> "none"]
         st0  == ScriptPre(none, envFile, cwdFile, funcFile)
         st1  == ScriptBody(st0, cmd.eff)
     IN /\ IF PostRuns(cmd)
           THEN /\ envFile' = SaveEnv(st1.env)
                /\ cwdFile' = st1.cwd
                /\ funcFile' = st1.funcs
           ELSE UNCHANGED <<envFile, cwdFile, funcFile>>
        /\ lastRun' = [cmd |-> cmd, startEnv |-> st0.env,
                       endEnv |-> st1.env, endCwd |-> st1.cwd,
                       endFuncs |-> st1.funcs,
                       exitCode |-> IF cmd.end = "hang" THEN TimeoutExitCode
                                    ELSE CommandScriptExit(cmd, afterEach),
                       stderr |-> ShellStderr(cmd),
                       killed |-> ShellKilled(cmd),
                       awaitedExit |-> ShellAwaitedExit(cmd),
                       via |-> "TestSession"]
  /\ ran' = ran + 1
  /\ UNCHANGED <<blockOpts, sinceReset>>
  /\ UNCHANGED <<sessionVars, matchVars>>

\* ensureStateFiles, before the first block.
ShellIdle ==
  /\ envFile = [n \in Names |-> "absent"]
  /\ cwdFile = RunnerCwd
  /\ funcFile = {}
  /\ blockOpts = [reset |-> FALSE, cwd |-> "none", env |-> "none"]
  /\ lastRun = NoRun
  /\ ran = 0
  /\ sinceReset = FALSE

\* A session as its constructor leaves it.
Constructed ==
  /\ stdoutBuffer = <<>>
  /\ stderrBuffer = <<>>
  /\ firstExecute = TRUE
  /\ closed = FALSE
  /\ readerActive = [stdout |-> TRUE, stderr |-> TRUE]
  /\ procExited = FALSE
  /\ pc = "idle"
  /\ command = <<>>
  /\ elapsed = 0
  /\ lastOutputTime = 0
  /\ lastLen = 0
  /\ exitCode = 0
  /\ arrived = 0
  /\ sentAt = 0
  /\ result = NoResult
  /\ stdinLog = <<>>
  /\ inFlight = 0
  /\ stdinEnds = 0
  /\ terminalCloses = 0
  /\ kills = 0
  /\ closeCalls = 0
  /\ closing = "none"
  /\ cmdIdx = 0
  /\ threw = FALSE
  /\ rb = "loop"
  /\ emitted = 0
  /\ markers = NoMarkers

\* No matchLines call made yet, on an empty capture table.
NoCall == [made |-> FALSE, expected |-> <<>>, actual |-> <<>>,
           before |-> NoCaps, ok |-> FALSE, msg |-> "none"]

MatchIdle ==
  /\ capsStdout = NoCaps
  /\ call = NoCall

\* The names of the documents: a/b, a_b and c.
Paths == {<<"a", "/", "b">>, <<"a", "_", "b">>, <<"c">>}

\* file.replace(/[^A-Za-z0-9._-]/g, '_')
Safe(file) ==
  [i \in 1..Len(file) |->
     IF file[i] \in {"a", "b", "c", ".", "_", "-"} THEN file[i] ELSE "_"]

\* No state file of any name exists.
NoFiles == [path |-> <<>>, env |-> [n \in Names |-> "absent"],
            cwd |-> RunnerCwd, funcs |-> {}]

\* The runner before its first document.
DocIdle ==
  /\ phase = "idle"
  /\ docs = 0
  /\ docPath = <<>>
  /\ disk = [k \in {Safe(f) : f \in Paths} |-> NoFiles]
  /\ blocks = 0
  /\ inBlock = 0
  /\ firstStep = TRUE
  /\ shape = <<>>
  /\ log = <<>>

\* An exit line that was not written, and a block that was not judged.
NoExit == [given |-> FALSE, code |-> 0]

NoJudged ==
  [made |-> FALSE, fence |-> 0, steps |-> <<>>, results |-> <<>>,
   passed |-> FALSE]

\* No result was split into lines yet.
NoSplit == [made |-> FALSE, text |-> <<>>, lines |-> <<>>, stdout |-> <<>>]

\* main before its loop over the documents.
FileIdle ==
  /\ md = <<>>
  /\ cursor = 0
  /\ judged = NoJudged
  /\ verdicts = <<>>
  /\ replacements = <<>>
  /\ update = FALSE
  /\ written = <<>>
  /\ failures = 0
  /\ total = 0
  /\ exitStatus = -1
  /\ split = NoSplit

Init ==
  /\ usePty \in BOOLEAN
  /\ useOsc133 \in (IF usePty THEN {FALSE} ELSE BOOLEAN)
  /\ Constructed
  /\ ShellIdle
  /\ MatchIdle
  /\ runner = "cli"
  /\ DocIdle
  /\ FileIdle

Next ==
  \/ ExecuteCall
  \/ ReadyPoll
  \/ GraceDone
  \/ StartupDone
  \/ CompletionPoll
  \/ EmitStdout
  \/ EmitStderr
  \/ ProcExit
  \/ CloseCall
  \/ CloseRace
  \/ RunBlockEnd

Spec == Init /\ [][Next]_vars

TypeOK ==
  /\ pc \in {"idle", "ready", "grace", "startup", "wait"}
  /\ inFlight \in 0..1
  /\ closing \in {"none", "race", "done"}

(***************************************************************************)
(* The end of execute on its own: the loop is asleep one poll before the   *)
(* ceiling and the subprocess has just written an arbitrary text in one    *)
(* go; the next poll returns it.  For a PtySession the text may also be    *)
(* what a terminal that echoes its input holds after the write of a        *)
(* command of one line or of two: the echo, then the command's output.     *)
(***************************************************************************)
TextAlphabet == {"OSC133;", "A", "D", "BEL", "x"}

RawTexts == UNION {[1..n -> TextAlphabet] : n \in 0..MaxRawLen}

MaxOwnLen == 3

\* parseBlock: a command, and a command with a continuation line.
PtyCommands == {<<"c">>, <<"c", "\n", "c">>}

OwnTexts == UNION {[1..n -> {"c", "x", "\r", "\n"}] : n \in 0..MaxOwnLen}

\* terminal.write(command + "\n") on a terminal with ECHO and ONLCR: the
\* characters come back, every newline as \r\n.
RECURSIVE TtyEcho(_)
TtyEcho(text) ==
  IF text = <<>> THEN <<>>
  ELSE (IF text[1] = "\n" THEN <<"\r", "\n">> ELSE <<text[1]>>)
         \o TtyEcho(Tail(text))

Echoed(cmd) == TtyEcho(cmd \o <<"\n">>)

TextInit ==
  /\ usePty \in BOOLEAN
  /\ useOsc133 \in (IF usePty THEN {FALSE} ELSE BOOLEAN)
  /\ \/ /\ command = CommandText(1)
        /\ stdoutBuffer \in RawTexts
     \/ /\ usePty
        /\ command \in PtyCommands
        /\ stdoutBuffer \in {Echoed(command) \o own : own \in OwnTexts}
  /\ stderrBuffer \in (IF usePty THEN {<<>>} ELSE {<<>>, ReadyMarker})
  /\ firstExecute = FALSE
  /\ closed = FALSE
  /\ readerActive = [stdout |-> TRUE, stderr |-> TRUE]
  /\ procExited = FALSE
  /\ pc = "wait"
  /\ elapsed = MaxWait - 1
  /\ lastOutputTime = 0
  /\ lastLen = 0
  /\ exitCode = 0
  /\ arrived = Len(stdoutBuffer) + Len(stderrBuffer)
  /\ sentAt = 0
  /\ result = NoResult
  /\ stdinLog = <<command>>
  /\ inFlight = 1
  /\ stdinEnds = 0
  /\ terminalCloses = 0
  /\ kills = 0
  /\ closeCalls = 0
  /\ closing = "none"
  /\ cmdIdx = 1
  /\ threw = FALSE
  /\ rb = "loop"
  /\ emitted = 1
  /\ markers = LET n == Cardinality({i \in 1..Len(stdoutBuffer) :
                                      MatchDAt(stdoutBuffer, i) # 0})
               IN  [answered |-> IF n > 0 THEN 1 ELSE 0,
                    inBuffer |-> [i \in 1..n |-> IF i = 1 THEN 1 ELSE 0]]
  /\ ShellIdle
  /\ MatchIdle
  /\ runner = "cli"
  /\ DocIdle
  /\ FileIdle

TextNext == CompletionPoll

TextSpec == TextInit /\ [][TextNext]_vars

(***************************************************************************)
(* A document run in bash mode: blocks start, and their commands run one   *)
(* process after the other.  No session is constructed.                    *)
(***************************************************************************)
ShellInit ==
  /\ usePty = FALSE
  /\ useOsc133 = FALSE
  /\ Constructed
  /\ ShellIdle
  /\ MatchIdle
  /\ runner = "cli"
  /\ DocIdle
  /\ FileIdle

ShellNext ==
  \/ \E opts \in BlockOptions :
       /\ lastRun.via # "TestSession"
       /\ StartBlock(opts)
       /\ UNCHANGED <<docVars, fileVars, split>>
  \/ \E cmd \in Commands :
       /\ RunCommand(cmd)
       /\ UNCHANGED <<docVars, fileVars, split>>
  \/ \E cmd \in Commands, afterEach \in BOOLEAN :
       /\ SessionRunCommand(cmd, afterEach)
       /\ UNCHANGED <<docVars, fileVars, split>>

ShellSpec == ShellInit /\ [][ShellNext]_vars

(***************************************************************************)
(* The matcher called on the capture table of a scope.  The table is as    *)
(* the earlier calls of the scope left it: empty, or holding a value an    *)
(* earlier {{id}} took from a line of output.                              *)
(***************************************************************************)
MaxLineLen == 2

MaxBlockLen == 3

ExpChars == {"a", "$", "&", " ", "/"}

ExpTokens == ExpChars \cup CaptureTokens \cup WildcardTokens

ActChars == {"a", ".", "$", "&", " "}

SeqsUpTo(S, n) == UNION {[1..k -> S] : k \in 0..n}

ExpectedLines == SeqsUpTo(ExpTokens, MaxLineLen)

ActualLines == SeqsUpTo(ActChars, MaxLineLen)

\* Blocks of several lines, over a few short lines.
ExpectedBlocks ==
  SeqsUpTo({<<"a">>, <<"...">>, <<"[...]">>, <<"{{id}}">>, <<"{{id:*}}">>},
           MaxBlockLen)

ActualBlocks == SeqsUpTo({<<"a">>, <<".">>}, MaxBlockLen)

MatchInputs ==
  {<<<<e>>, <<a>>>> : e \in ExpectedLines, a \in ActualLines}
    \cup (ExpectedBlocks \X ActualBlocks)

\* What a capture can hold: a non-empty stretch of a line.
CapturedValues == ActualLines \ {<<>>}

CaptureTables == [CapNames -> {Undefined} \cup {Defined(v) : v \in CapturedValues}]

\* One call matchLines(expected, actual, caps) on the shared table, which
\* the call mutates in place.
CallMatchLines(expected, actual) ==
  LET r == matchLines(expected, actual, capsStdout) IN
  /\ call' = [made |-> TRUE, expected |-> expected, actual |-> actual,
              before |-> capsStdout, ok |-> r.ok, msg |-> r.msg]
  /\ capsStdout' = r.caps
  /\ UNCHANGED <<sessionVars, shellVars, docVars, fileVars, split>>

MatchInit ==
  /\ usePty = FALSE
  /\ useOsc133 = FALSE
  /\ Constructed
  /\ ShellIdle
  /\ capsStdout \in CaptureTables
  /\ call = NoCall
  /\ runner = "cli"
  /\ DocIdle
  /\ FileIdle

\* One call is followed from each table.
MatchNext ==
  /\ ~call.made
  /\ \E in \in MatchInputs : CallMatchLines(in[1], in[2])

MatchSpec == MatchInit /\ [][MatchNext]_vars

(***************************************************************************)
(* One document judged block by block: the fences are found, each block is *)
(* parsed into steps, its commands run and the results compared, and at   *)
(* the end of main the failed blocks are rewritten when UPDATE is set.     *)
(* A line is a sequence of characters; the opening line of a fence is the  *)
(* tokens of the marker, the language and the options, and "FENCE" stands  *)
(* for the three backquotes of the marker.                                 *)
(***************************************************************************)
MaxBodyLen == 3
MaxFences == 2

BodyLines ==
  {<<"$", " ", "c">>, <<">", " ", "c">>, <<"a">>, <<"[", "1", "]">>}

Infos == {<<>>, <<"exit=1">>}

StartsWith(line, prefix) ==
  /\ Len(line) >= Len(prefix)
  /\ SubSeq(line, 1, Len(prefix)) = prefix

\* raw.match(/^\[(\d+)\]\s*$/) and Number(m[1]).
ExitLine(raw) ==
  LET k == IndexOf(raw, "]", 1) IN
  IF /\ k >= 3
     /\ raw[1] = "["
     /\ \A i \in 2..(k - 1) : raw[i] \in Digit
     /\ \A i \in (k + 1)..Len(raw) : raw[i] = " "
    THEN [given |-> TRUE, code |-> DigitsValue(SubSeq(raw, 2, k - 1))]
    ELSE NoExit

\* The loop of parseBlock over the lines from line i on, and the last
\* finalizeStep.  st holds currentCmd (has: it is not null), expOut and
\* expExit; the lines of stderr are not kept.
RECURSIVE ParseFrom(_, _, _)
ParseFrom(lines, i, st) ==
  LET Kept(o) == {k \in 0..Len(o) : k = 0 \/ o[k] # <<>>}
      NoTrailing(o) ==
        SubSeq(o, 1, CHOOSE k \in Kept(o) : \A j \in Kept(o) : j <= k)
      finalizeStep ==
        IF st.has
          THEN [st EXCEPT
                  !.steps = Append(@, [cmd |-> st.cmd,
                                       stdout |-> NoTrailing(st.out),
                                       exit |-> st.exit]),
                  !.out = <<>>,
                  !.exit = NoExit]
          ELSE st
  IN
  IF i > Len(lines) THEN finalizeStep.steps
  ELSE LET raw == lines[i] IN
    IF StartsWith(raw, <<"$", " ">>)
      THEN ParseFrom(lines, i + 1,
             [finalizeStep EXCEPT !.has = TRUE,
                                  !.cmd = <<SliceFrom(raw, 3)>>])
    ELSE IF StartsWith(raw, <<">", " ">>)
      THEN IF st.has
             THEN ParseFrom(lines, i + 1,
                    [st EXCEPT !.cmd = Append(@, SliceFrom(raw, 3))])
             ELSE ParseFrom(lines, i + 1, [st EXCEPT !.out = Append(@, raw)])
    ELSE IF StartsWith(raw, <<"!", " ">>)
      THEN ParseFrom(lines, i + 1, st)
    ELSE IF ExitLine(raw).given
      THEN ParseFrom(lines, i + 1, [st EXCEPT !.exit = ExitLine(raw)])
    ELSE ParseFrom(lines, i + 1, [st EXCEPT !.out = Append(@, raw)])

\* The steps of a block.
parseBlock(text) ==
  ParseFrom(text, 1, [steps |-> <<>>, has |-> FALSE, cmd |-> <<>>,
                      out |-> <<>>, exit |-> NoExit])

\* xs.flatMap((x) => x)
RECURSIVE flatMap(_)
flatMap(xs) == IF xs = <<>> THEN <<>> ELSE Head(xs) \o flatMap(Tail(xs))

\* parseInfo: the exit option of a fence.
InfoExit(info) ==
  IF \E i \in 1..Len(info) : info[i] = "exit=1"
    THEN [given |-> TRUE, code |-> 1]
    ELSE NoExit

\* The opening and the closing line of a fence.
OpenLine(lang, info) ==
  <<"FENCE", lang>> \o (IF info # <<>> THEN <<" ">> \o info ELSE <<>>)

CloseLine == <<"FENCE">>

\* The code blocks of the document from line i on, in document order, with
\* the first and the last line of each.
RECURSIVE FencesFrom(_, _)
FencesFrom(doc, i) ==
  IF i > Len(doc) THEN <<>>
  ELSE IF Len(doc[i]) >= 2 /\ doc[i][1] = "FENCE"
    THEN LET j == IndexOf(doc, CloseLine, i + 1)
             last == IF j = 0 THEN Len(doc) + 1 ELSE j
         IN <<[lang  |-> doc[i][2],
               info  |-> SliceFrom(doc[i], 4),
               text  |-> SubSeq(doc, i + 1, last - 1),
               start |-> i,
               end   |-> last]>> \o FencesFrom(doc, last + 1)
    ELSE FencesFrom(doc, i + 1)

\* The fences testFile loops over.
FencesOf(doc) ==
  SelectSeq(FencesFrom(doc, 1), LAMBDA f : f.lang \in {"console", "sh"})

\* What a command may answer: its exit code and its lines of stdout.
CommandResults ==
  [exit : {0, 1}, out : {<<>>, <<<<"a">>>>, <<<<"[", "1", "]">>>>}]

\* The results the commands of the next fence may give.
NextResults ==
  IF cursor < Len(FencesOf(md))
    THEN [1..Len(parseBlock(FencesOf(md)[cursor + 1].text))
            -> CommandResults]
    ELSE {}

\* testFile: the block passes when the combined output of its commands
\* matches the combined expectation and the exit code of the last command
\* is the wanted one.
CliPassed(info, steps, results, caps) ==
  LET n        == Len(steps)
      stdout   == flatMap([k \in 1..n |-> results[k].out])
      lastExit == results[n].exit
      expect   == [stdout |-> flatMap([k \in 1..n |-> steps[k].stdout]),
                   exit   |-> steps[n].exit]
      wantExit == IF expect.exit.given THEN expect.exit.code
                  ELSE IF InfoExit(info).given THEN InfoExit(info).code
                  ELSE 0
  IN matchLines(expect.stdout, stdout, caps).ok /\ lastExit = wantExit

\* registerNestedTests: one test per step, which passes when the output of
\* its command matches its expectation and the exit code is the wanted one.
StepPassed(step, res, caps) ==
  /\ matchLines(step.stdout, res.out, caps).ok
  /\ res.exit = (IF step.exit.given THEN step.exit.code ELSE 0)

\* The lines of a rewritten block: the command and continuation lines, the
\* stdout of the run, the exit code when it is not 0.
Rebuilt_DropContinuations(text, stdout, code) ==
  LET Keep(c) == StartsWith(c, <<"$", " ">>) IN
  SelectSeq(text, Keep) \o stdout
    \o (IF code # 0
          THEN <<<<"[", IF code = 1 THEN "1" ELSE "0", "]">>>>
          ELSE <<>>)

Rebuilt(text, stdout, code) ==
  LET Keep(c) == StartsWith(c, <<"$", " ">>) \/ StartsWith(c, <<">", " ">>)
  IN
  SelectSeq(text, Keep) \o stdout
    \o (IF code # 0
          THEN <<<<"[", IF code = 1 THEN "1" ELSE "0", "]">>>>
          ELSE <<>>)

\* reps.sort((a, b) => b.start - a.start), then each replacement spliced
\* in: the one that starts last first.
RECURSIVE applyReplacements(_, _)
applyReplacements(doc, reps) ==
  IF reps = <<>> THEN doc
  ELSE LET k == CHOOSE x \in 1..Len(reps) :
                  \A y \in 1..Len(reps) : reps[y].start <= reps[x].start
           r == reps[k]
           rest == SubSeq(reps, 1, k - 1) \o SubSeq(reps, k + 1, Len(reps))
       IN applyReplacements(
            SubSeq(doc, 1, r.start - 1) \o r.newText
              \o SubSeq(doc, r.end + 1, Len(doc)),
            rest)

\* One iteration of the block loop of testFile, and the tests of one
\* fence in the framework: a block without commands is passed over, any
\* other is run and judged, and counted by testFile; a failed block is
\* rewritten when UPDATE is set.
JudgeFence(results) ==
  LET f      == FencesOf(md)[cursor + 1]
      steps  == parseBlock(f.text)
      n      == Len(steps)
      passed == IF runner = "cli"
                  THEN CliPassed(f.info, steps, results, capsStdout)
                  ELSE \A k \in 1..n :
                         StepPassed(steps[k], results[k], capsStdout)
      stdout == flatMap([k \in 1..n |-> results[k].out])
  IN
  /\ exitStatus = -1
  /\ cursor < Len(FencesOf(md))
  /\ cursor' = cursor + 1
  /\ IF n = 0
       THEN /\ verdicts' = Append(verdicts, "skip")
            /\ UNCHANGED <<judged, replacements, failures, total>>
       ELSE /\ judged' = [made |-> TRUE, fence |-> cursor + 1,
                          steps |-> steps, results |-> results,
                          passed |-> passed]
            /\ verdicts' = Append(verdicts, IF passed THEN "pass" ELSE "fail")
            /\ total' = IF runner = "cli" THEN total + 1 ELSE total
            /\ failures' = IF runner = "cli" /\ ~passed THEN failures + 1 ELSE failures
            /\ replacements' =
                 IF ~passed /\ update
                   THEN Append(replacements,
                          [start |-> f.start, end |-> f.end,
                           newText |->
                             <<OpenLine(f.lang, f.info)>>
                               \o Rebuilt(f.text, stdout, results[n].exit)
                               \o <<CloseLine>>])
                   ELSE replacements
  /\ UNCHANGED <<md, update, written, exitStatus>>
  /\ UNCHANGED <<sessionVars, shellVars, matchVars, docVars, split>>

(***************************************************************************)
(* The run of a list of documents: the loop of main over the files and of  *)
(* testFile over the blocks of one, and the tests registerBunTests         *)
(* registers for a file, one for each command.  No hook function is        *)
(* defined by the documents, so a hook script changes no state file; the   *)
(* log records that it was invoked.                                        *)
(***************************************************************************)
MaxDocs == 2

MaxBlocks == 2

Runners == {"cli", "framework"}

DocOptions == {o \in BlockOptions : o.cwd = "none" /\ o.env = "none"}

DocCommands ==
  {c \in Commands : c.end = "normal" /\ c.eff.op \in {"none", "export", "define"}
                      /\ c.eff.arg # "b"}

\* The expected stdout of a block and what its commands print.
DocExpected == {<<<<"a">>>>, <<<<"{{id}}">>>>, <<<<"{{id}}", "{{id}}">>>>}

DocOutputs == {<<<<"a">>>>, <<<<".">>>>}

Logged(event) == \E i \in 1..Len(log) : log[i] = event

\* testFile up to its block loop, and registerBunTests up to the first
\* test: the state files of the document are there, the capture tables
\* are empty.  The bash plugin makes a state directory of its own.
StartDocument(path) ==
  LET files == IF runner = "cli" THEN disk[Safe(path)] ELSE NoFiles IN
  /\ phase = "idle"
  /\ exitStatus = -1
  /\ docs < MaxDocs
  /\ docs' = docs + 1
  /\ docPath' = path
  /\ envFile' = files.env
  /\ cwdFile' = files.cwd
  /\ funcFile' = files.funcs
  /\ capsStdout' = NoCaps
  /\ phase' = "between"
  /\ blocks' = 0
  /\ inBlock' = 0
  /\ log' = <<>>
  /\ UNCHANGED <<blockOpts, lastRun, ran, sinceReset, call, runner, disk,
                 firstStep, shape>>
  /\ UNCHANGED sessionVars
  /\ UNCHANGED <<fileVars, split>>

\* The head of an iteration of the block loop of testFile: the options,
\* the reset, beforeEach.  In the framework: the beforeEach of a test (the
\* delayed beforeAll after the first test, then beforeEach) and the start
\* of executeBlock for the step, which asks the plugin for the block.
BeginBlock(opts, first) ==
  /\ phase = "between"
  /\ blocks < MaxBlocks
  /\ runner = "cli" => first
  /\ ~first => (blocks > 0 /\ opts = blockOpts)
  /\ StartBlock(opts)
  /\ firstStep' = first
  /\ log' = log
       \o (IF runner = "framework" /\ blocks > 0 /\ ~Logged("beforeAll")
             THEN <<"beforeAll">> ELSE <<>>)
       \o <<"beforeEach">>
  /\ phase' = "run"
  /\ inBlock' = 0
  /\ UNCHANGED <<runner, docs, docPath, disk, blocks, shape>>
  /\ UNCHANGED <<fileVars, split>>

\* The next command of the block; a step of the framework has one.
RunBlockCommand(cmd) ==
  /\ phase = "run"
  /\ runner = "framework" => inBlock = 0
  /\ inBlock < NumCommands
  /\ RunCommand(cmd)
  /\ inBlock' = inBlock + 1
  /\ log' = Append(log, "command")
  /\ UNCHANGED <<runner, phase, docs, docPath, disk, blocks, firstStep, shape>>
  /\ UNCHANGED <<fileVars, split>>

\* The rest of the iteration: beforeAll after the first block, the output
\* and the exit code compared and the block counted, afterEach.  A
\* SyntaxError of matchLines leaves testFile and main, whose promise
\* nothing catches, which ends the process with status 1; in the framework
\* it fails the test as a mismatch does, and afterEach runs after any test.
FinishBlock(expected, output, wantExit) ==
  LET r      == matchLines(expected, output, capsStdout)
      passed == r.ok /\ lastRun.exitCode = wantExit
      first  == IF runner = "cli" /\ ~Logged("beforeAll")
                  THEN <<"beforeAll">> ELSE <<>>
  IN
  /\ phase = "run"
  /\ inBlock > 0
  /\ call' = [made |-> TRUE, expected |-> expected, actual |-> output,
              before |-> capsStdout, ok |-> r.ok, msg |-> r.msg]
  /\ capsStdout' = r.caps
  /\ IF runner = "cli" /\ r.msg = "throw"
       THEN /\ phase' = "crashed"
            /\ log' = log \o first
            /\ exitStatus' = 1
            /\ UNCHANGED <<blocks, failures, total>>
       ELSE /\ phase' = "between"
            /\ log' = log \o first
                        \o <<IF passed THEN "pass" ELSE "fail", "afterEach">>
            /\ blocks' = blocks + 1
            /\ total' = IF runner = "cli" THEN total + 1 ELSE total
            /\ failures' = IF runner = "cli" /\ ~passed THEN failures + 1
                           ELSE failures
            /\ UNCHANGED exitStatus
  /\ UNCHANGED <<runner, docs, docPath, disk, inBlock, firstStep, shape>>
  /\ UNCHANGED <<sessionVars, shellVars>>
  /\ UNCHANGED <<md, cursor, judged, verdicts, replacements, update, written,
                 split>>

\* After the last block: afterAll.  The state files of testFile stay in
\* the state directory of the process.
EndDocument ==
  /\ phase = "between"
  /\ phase' = "idle"
  /\ log' = Append(log, "afterAll")
  /\ disk' = IF runner = "cli"
               THEN [disk EXCEPT ![Safe(docPath)] =
                       [path |-> docPath, env |-> envFile, cwd |-> cwdFile,
                        funcs |-> funcFile]]
               ELSE disk
  /\ UNCHANGED <<runner, docs, docPath, blocks, inBlock, firstStep, shape>>
  /\ UNCHANGED <<sessionVars, shellVars, matchVars>>
  /\ UNCHANGED <<fileVars, split>>

\* The end of main, after the last document: the documents with
\* replacements are written back, and the process exits with 1 when a
\* block failed.
MainEnd ==
  /\ runner = "cli"
  /\ exitStatus = -1
  /\ phase = "idle"
  /\ cursor = Len(FencesOf(md))
  /\ docs > 0 \/ md # <<>>
  /\ written' = IF update /\ replacements # <<>>
                  THEN applyReplacements(md, replacements)
                  ELSE md
  /\ exitStatus' = IF failures = 0 THEN 0 ELSE 1
  /\ UNCHANGED <<md, cursor, judged, verdicts, replacements, update, failures,
                 total>>
  /\ UNCHANGED <<sessionVars, shellVars, matchVars, docVars, split>>

DocInit ==
  /\ usePty = FALSE
  /\ useOsc133 = FALSE
  /\ Constructed
  /\ ShellIdle
  /\ MatchIdle
  /\ runner \in Runners
  /\ DocIdle
  /\ FileIdle

DocNext ==
  \/ \E path \in Paths : StartDocument(path)
  \/ \E opts \in DocOptions, first \in BOOLEAN : BeginBlock(opts, first)
  \/ \E cmd \in DocCommands : RunBlockCommand(cmd)
  \/ \E expected \in DocExpected, output \in DocOutputs, wantExit \in {0, 1} :
       FinishBlock(expected, output, wantExit)
  \/ EndDocument
  \/ MainEnd

DocSpec == DocInit /\ [][DocNext]_vars

(***************************************************************************)
(* The order in which the commands of a document run.  A document is its   *)
(* headings of depth 1 and 2 and its blocks, in source order; a heading is *)
(* known by its position, as its slug is its own.  The heading "h2b" is a  *)
(* heading of depth 2 with the text Block.  Every block has NumCommands    *)
(* commands.                                                               *)
(***************************************************************************)
MaxItems == 5

Shapes == SeqsUpTo({"h1", "h2", "h2b", "block"}, MaxItems)

Depth(item) == IF item = "h1" THEN 1 ELSE 2

HeadingsOf(doc) == {j \in 1..Len(doc) : doc[j] # "block"}

BlocksOf(doc) == {i \in 1..Len(doc) : doc[i] = "block"}

\* The last heading before position i, or 0 for null.
findNearestHeading(doc, i) ==
  LET before == {j \in HeadingsOf(doc) : j < i}
  IN  IF before = {} THEN 0
      ELSE CHOOSE j \in before : \A o \in before : o <= j

\* buildParentLinks: the heading left on the stack below heading j, the
\* last earlier heading of a smaller depth; 0 when there is none.
Parent(doc, j) ==
  LET above == {p \in HeadingsOf(doc) : p < j /\ Depth(doc[p]) < Depth(doc[j])}
  IN  IF above = {} THEN 0
      ELSE CHOOSE p \in above : \A o \in above : o <= p

\* The headings from the root down to heading j, a single depth-1 heading
\* of the document left out.
RECURSIVE PathTo(_, _)
PathTo(doc, j) ==
  IF j = 0 THEN <<>>
  ELSE LET skipH1 == Cardinality({h \in HeadingsOf(doc) : doc[h] = "h1"}) = 1
       IN  PathTo(doc, Parent(doc, j))
             \o (IF skipH1 /\ doc[j] = "h1" THEN <<>> ELSE <<j>>)

\* buildHeadingPath; <<0>> stands for ["(no heading)"].
buildHeadingPath(doc, j) ==
  IF j = 0 \/ PathTo(doc, j) = <<>> THEN <<0>> ELSE PathTo(doc, j)

BlockPath(doc, i) == buildHeadingPath(doc, findNearestHeading(doc, i))

\* The elements of a set of positions, smallest first.
RECURSIVE Ascending(_)
Ascending(S) ==
  IF S = {} THEN <<>>
  ELSE LET least == CHOOSE x \in S : \A y \in S : x <= y
       IN  <<least>> \o Ascending(S \ {least})

\* pathGroups and sortedPaths: the blocks of the first path of the
\* document, then those of the next path, each group by index.
RECURSIVE GroupedOrder(_, _)
GroupedOrder(doc, left) ==
  IF left = {} THEN <<>>
  ELSE LET first == CHOOSE x \in left : \A y \in left : x <= y
           group == {i \in left : BlockPath(doc, i) = BlockPath(doc, first)}
       IN  Ascending(group) \o GroupedOrder(doc, left \ group)

\* parseMarkdown: the slug of heading j.  The slugger gives the first
\* heading Block the slug block and the n-th one after it block-n, and
\* parseMarkdown turns the dashes into spaces; the slug of another
\* heading is its own.
Slug(doc, j) ==
  LET earlier == Cardinality({h \in 1..(j - 1) : doc[h] = "h2b"}) IN
  IF doc[j] # "h2b" THEN <<"h", j>>
  ELSE IF earlier = 0 THEN <<"block">>
  ELSE <<"block", " ", earlier>>

\* The test id of the block at position i: block-N for the N-th fence when
\* no heading precedes it, else the slug of the nearest heading, with -N
\* for the N-th block under that heading from the second on.
generateTestId(doc, i) ==
  LET h     == findNearestHeading(doc, i)
      index == Cardinality({b \in BlocksOf(doc) : b < i})
      count == Cardinality({b \in BlocksOf(doc) :
                              b < i /\ findNearestHeading(doc, b) = h})
  IN IF h = 0 THEN <<"block", "-", index + 1>>
     ELSE IF count > 0 THEN Slug(doc, h) \o <<"-", count + 1>>
     ELSE Slug(doc, h)

\* seenTestIds.has(testId) at the block at position i.
SeenTestId(doc, i) ==
  \E b \in BlocksOf(doc) :
     b < i /\ generateTestId(doc, b) = generateTestId(doc, i)

\* The blocks in the order the runner takes them.
BlockOrder(run, doc) ==
  IF run = "cli" THEN Ascending(BlocksOf(doc))
  ELSE GroupedOrder(doc, BlocksOf(doc))

\* The commands in the order they run: block by block, each block from
\* its first command to its last.
Schedule(run, doc) ==
  LET order == BlockOrder(run, doc)
  IN  [n \in 1..(Len(order) * NumCommands) |->
         [block |-> order[((n - 1) \div NumCommands) + 1],
          command |-> ((n - 1) % NumCommands) + 1]]

\* The next command of the document is run.  testFile does not reach
\* the commands of a block whose test id it has seen.
RunNext ==
  /\ phase = "idle"
  /\ Len(log) < Len(Schedule(runner, shape))
  /\ runner = "cli" =>
       ~SeenTestId(shape, Schedule(runner, shape)[Len(log) + 1].block)
  /\ log' = Append(log, Schedule(runner, shape)[Len(log) + 1])
  /\ UNCHANGED <<runner, phase, docs, docPath, disk, blocks, inBlock,
                 firstStep, shape>>
  /\ UNCHANGED <<sessionVars, shellVars, matchVars>>
  /\ UNCHANGED <<fileVars, split>>

\* testFile at a block whose test id it has seen: the error is printed
\* and the process exits with 1.
AbortDuplicate ==
  /\ runner = "cli"
  /\ phase = "idle"
  /\ Len(log) < Len(Schedule(runner, shape))
  /\ SeenTestId(shape, Schedule(runner, shape)[Len(log) + 1].block)
  /\ phase' = "aborted"
  /\ exitStatus' = 1
  /\ UNCHANGED <<runner, docs, docPath, disk, blocks, inBlock, firstStep,
                 shape, log>>
  /\ UNCHANGED <<sessionVars, shellVars, matchVars>>
  /\ UNCHANGED <<md, cursor, judged, verdicts, replacements, update, written,
                 failures, total, split>>

OrderInit ==
  /\ usePty = FALSE
  /\ useOsc133 = FALSE
  /\ Constructed
  /\ ShellIdle
  /\ MatchIdle
  /\ runner \in Runners
  /\ phase = "idle"
  /\ docs = 0
  /\ docPath = <<>>
  /\ disk = [k \in {Safe(f) : f \in Paths} |-> NoFiles]
  /\ blocks = 0
  /\ inBlock = 0
  /\ firstStep = TRUE
  /\ shape \in Shapes
  /\ log = <<>>
  /\ FileIdle

OrderNext == RunNext \/ AbortDuplicate

OrderSpec == OrderInit /\ [][OrderNext]_vars

(***************************************************************************)
(* The documents given to testFile, and the run of one of them.            *)
(***************************************************************************)
\* The documents: fences of the console language, one after the other,
\* with MaxBodyLen lines in their blocks at most.
Fences == [info : Infos, text : SeqsUpTo(BodyLines, MaxBodyLen)]

Documents ==
  {flatMap([k \in 1..Len(fs) |->
              <<OpenLine("console", fs[k].info)>> \o fs[k].text
                \o <<CloseLine>>]) :
     fs \in {x \in SeqsUpTo(Fences, MaxFences) \ {<<>>} :
               Len(flatMap([k \in 1..Len(x) |-> x[k].text])) <= MaxBodyLen}}

FileInit ==
  /\ usePty = FALSE
  /\ useOsc133 = FALSE
  /\ Constructed
  /\ ShellIdle
  /\ MatchIdle
  /\ runner \in Runners
  /\ DocIdle
  /\ md \in Documents
  /\ cursor = 0
  /\ judged = NoJudged
  /\ verdicts = <<>>
  /\ replacements = <<>>
  /\ update \in (IF runner = "cli" THEN BOOLEAN ELSE {FALSE})
  /\ written = <<>>
  /\ failures = 0
  /\ total = 0
  /\ exitStatus = -1
  /\ split = NoSplit

FileNext ==
  \/ \E results \in NextResults : JudgeFence(results)
  \/ MainEnd

FileSpec == FileInit /\ [][FileNext]_vars

(***************************************************************************)
(* Properties of the persistent sessions.                                  *)
(***************************************************************************)
\* A step in which the completion loop has run an iteration and gone back
\* to sleep.
PolledAndSleeps == pc' = "wait" /\ (pc # "wait" \/ elapsed' # elapsed)

\* A step in which an execute call has returned a result.
Returned == result'.seq # result.seq

HasDone(buf) == OSC_133_D_PATTERN(buf).found

\* The stdout text that has arrived since the command was written.
Fresh(buf, sent) == SliceFrom(buf, sent + 1)

\* C1: with the marker protocol active, the loop never goes back to sleep
\* when a Done marker has arrived since the command was written (the poll
\* that sees the marker ends execute, whatever the silence and the elapsed
\* time), and the result carries the exit code of that marker, 0 when the
\* marker has none.
C1_DoneMarkerEndsExecute ==
  [][ /\ (PolledAndSleeps /\ MarkerMode) =>
            ~HasDone(Fresh(stdoutBuffer', sentAt'))
      /\ (Returned /\ MarkerMode /\ result'.sentAt = 0
            /\ HasDone(result'.raw)) =>
            result'.exitCode = MarkerExitCode(OSC_133_D_PATTERN(result'.raw))
    ]_vars

\* The bound of the readiness wait that is running.
ReadyBound ==
  IF usePty THEN (IF firstExecute THEN StartupDelay ELSE MinWait)
  ELSE Max(MaxWait, StartupFloor)

\* C2: the completion loop sleeps only while less than maxWait has elapsed
\* since the command was written, so the first poll at or after maxWait
\* returns, whatever has arrived; the readiness wait sleeps only while its
\* own bound has not elapsed.
C2_WaitsAreBounded ==
  /\ pc = "wait" => elapsed < MaxWait
  /\ pc = "ready" => elapsed < ReadyBound
  /\ result.elapsed < MaxWait + PollSleep + MaxJitter

C2_Witness ==
  /\ result.how = "maxwait"
  /\ result.arrived > 0
  /\ result.elapsed >= MaxWait

\* C3: with the marker protocol active and no Done marker in the buffer,
\* the loop never goes back to sleep once a byte has arrived since the
\* command was written and nothing new has arrived for minWait: that poll
\* returns, before the ceiling, with exit code 0.
C3_SilenceFallback ==
  [][ /\ (PolledAndSleeps /\ MarkerMode /\ ~HasDone(stdoutBuffer')) =>
            ~(arrived' > 0 /\ elapsed' - lastOutputTime' >= MinWait)
      /\ (Returned /\ MarkerMode /\ result'.how = "silence") =>
            result'.exitCode = 0
    ]_vars

\* C4: a result by silence has at least one byte arrived since the command
\* was written; an execute for which nothing arrived, and whose buffer holds
\* no Done marker, returns at the ceiling only.
C4_NoSilenceWithoutOutput ==
  /\ result.how = "silence" => result.arrived > 0
  /\ (result.how # "none" /\ result.arrived = 0 /\ ~HasDone(result.raw)) =>
        (result.how = "maxwait" /\ result.elapsed >= MaxWait)

C4_Witness ==
  /\ result.how = "maxwait"
  /\ result.arrived = 0
  /\ result.raw = <<>>

ContainsMarker(text) == \E i \in 1..Len(text) : MatchAnyAt(text, i) # 0

\* C6: with the marker protocol active, no Ready, Start or Done marker is
\* left in the stdout or the stderr of a result.
C6_NoMarkerInOutput ==
  (result.how # "none" /\ MarkerMode) =>
     /\ ~ContainsMarker(result.stdout)
     /\ ~ContainsMarker(result.stderr)

\* C7: at most one execute call is unresolved at any time, and what has
\* been written to the subprocess is the block's commands, in block order.
C7_OneCommandInFlight ==
  /\ inFlight <= 1
  /\ Len(stdinLog) <= cmdIdx
  /\ \A i \in 1..Len(stdinLog) : stdinLog[i] = CommandText(i)

C7_Witness ==
  /\ Len(stdinLog) = NumCommands
  /\ inFlight = 1

\* C8: however often close() is called, stdin is ended, the terminal closed
\* and the process killed at most once, and after any close the session is
\* closed and isRunning is false.
C8_CloseIsIdempotent ==
  /\ stdinEnds <= 1
  /\ terminalCloses <= 1
  /\ kills <= 1
  /\ closeCalls > 0 => (closed /\ ~isRunning)

C8_Witness ==
  /\ closeCalls >= 2
  /\ closing = "done"

(***************************************************************************)
(* Properties of the one-shot bash mode.                                   *)
(***************************************************************************)
\* A step in which one command has run as a process.
CommandRan == ran' = ran + 1

\* C9: in one-shot mode a variable exported by a command is observed by
\* the next command of the document, as long as no reset block comes
\* between the two.  (A block that sets the variable itself through its
\* env option is left aside: it is meant to see its own value.)
C9_ExportSeenByNextCommand ==
  [][(/\ CommandRan
      /\ ran >= 1
      /\ ~sinceReset
      /\ blockOpts.env = "none"
      /\ lastRun.cmd.eff.op = "export")
     => \A n \in Names : lastRun'.startEnv[n] = lastRun.cmd.eff.arg]_vars

\* C10: after every one-shot command, whether it succeeded or not, the
\* saved state (working directory, exported environment, functions) is
\* the state the command's process had when the command ended.
C10_StateSavedAfterEveryCommand ==
  [][CommandRan
     => /\ envFile' = SaveEnv(lastRun'.endEnv)
        /\ cwdFile' = lastRun'.endCwd
        /\ funcFile' = lastRun'.endFuncs]_vars

(***************************************************************************)
(* Properties of the matcher.  Each speaks of the call made: its           *)
(* arguments, the table before it (call.before) and after it (capsStdout). *)
(***************************************************************************)
OneLineCall == call.made /\ Len(call.expected) = 1 /\ Len(call.actual) = 1

\* C15: captures are write-once: a call of matchLines on a table in which a
\* name is bound leaves the binding as it was, and an expected line that is
\* a {{name:*}} or {{name:/re/}} capture fails against a line other than
\* the bound value.
C15_CapturesWriteOnce ==
  call.made =>
    \A k \in CapNames :
      call.before[k].bound =>
        /\ capsStdout[k] = call.before[k]
        /\ (/\ OneLineCall
            /\ call.expected[1] \in {<<"{{id:*}}">>, <<"{{id:/./}}">>}
            /\ normLine(call.actual[1]) # call.before[k].val) => ~call.ok

C15_Witness ==
  /\ OneLineCall
  /\ call.before["id"] = Defined(<<"a">>)
  /\ call.expected[1] = <<"{{id:*}}">>
  /\ call.actual[1] = <<".">>
  /\ call.msg = "capture mismatch"
  /\ capsStdout["id"] = Defined(<<"a">>)

\* The line an expected line of literal characters and {{id}} tokens
\* stands for when id holds v.
RECURSIVE Substituted(_, _)
Substituted(line, v) ==
  IF line = <<>> THEN <<>>
  ELSE (IF line[1] = "{{id}}" THEN v ELSE <<line[1]>>)
         \o Substituted(Tail(line), v)

ReuseLine(line) ==
  /\ \E i \in 1..Len(line) : line[i] = "{{id}}"
  /\ \A i \in 1..Len(line) : line[i] \in ExpChars \cup {"{{id}}"}
  /\ line[Len(line)] # " "
  /\ ~IsWholeLineRegex(line)

\* C16: an expected line with {{id}} tokens matches, when id is bound,
\* exactly the line with the bound value in the place of each token; when
\* id is unbound it matches exactly the lines with one non-empty value in
\* the place of each token, and a lone {{id}} binds id to the line matched.
C16_ReuseMatchesBoundValue ==
  (OneLineCall /\ ReuseLine(call.expected[1])) =>
    LET e == call.expected[1]
        a == normLine(call.actual[1])
    IN  IF call.before["id"].bound
          THEN call.ok <=> (a = Substituted(e, call.before["id"].val))
          ELSE /\ call.ok <=> (\E v \in CapturedValues : a = Substituted(e, v))
               /\ (call.ok /\ e = <<"{{id}}">>) => capsStdout["id"] = Defined(a)

\* The split matchLines accepts for a wildcard in the first expected line:
\* the fewest actual lines taken with which the lines after the wildcard
\* match the rest.
AfterWildcard(k) ==
  MatchFrom(Tail(call.expected), SliceFrom(call.actual, k + 1), call.before)

GoodSplits == {k \in 0..Len(call.actual) : AfterWildcard(k).ok}

FirstSplit == CHOOSE k \in GoodSplits : \A o \in GoodSplits : k <= o

WildcardFirst ==
  /\ call.made
  /\ Len(call.expected) >= 2
  /\ trim(call.expected[1]) \in {<<"...">>, <<"[...]">>}

\* C17: after a match through a wildcard in the first expected line the
\* table holds what the lines after the wildcard bound on the split
\* accepted, and nothing else; after a failure it is as it was.
C17_WildcardCommitsCaptures ==
  WildcardFirst =>
    IF call.ok THEN capsStdout = AfterWildcard(FirstSplit).caps
    ELSE capsStdout = call.before

\* The first wildcard line of the expected lines, 0 when there is none.
FirstWildcard ==
  LET at == {i \in 1..Len(call.expected) :
               trim(call.expected[i]) \in {<<"...">>, <<"[...]">>}}
  IN  IF at = {} THEN 0 ELSE CHOOSE i \in at : \A o \in at : i <= o

\* C18: a block with a wildcard line matches exactly when the expected
\* lines above the wildcard match the first actual lines one to one and,
\* for some number of actual lines left to the wildcard, zero and all of
\* them included, the expected lines below the wildcard match the rest; a
\* wildcard with no expected line below it matches whatever is left.
C18_WildcardMatchesAnySplit ==
  (call.made /\ FirstWildcard > 0) =>
    LET p    == FirstWildcard
        rest == SliceFrom(call.expected, p + 1)
        head == MatchFrom(SubSeq(call.expected, 1, p - 1),
                          SubSeq(call.actual, 1, p - 1), call.before)
    IN  call.ok <=>
          /\ Len(call.actual) >= p - 1
          /\ head.ok
          /\ \/ rest = <<>>
             \/ \E k \in (p - 1)..Len(call.actual) :
                  MatchFrom(rest, SliceFrom(call.actual, k + 1), head.caps).ok

C18_Witness ==
  /\ call.made
  /\ call.expected = <<<<"a">>, <<"...">>, <<"a">>>>
  /\ call.actual = <<<<"a">>, <<"a">>>>
  /\ call.ok

C18_WitnessLater ==
  /\ WildcardFirst
  /\ call.ok
  /\ FirstSplit = 2
  /\ call.before = NoCaps

LiteralLine(line) ==
  /\ \A i \in 1..Len(line) : line[i] \in ExpChars
  /\ ~IsWholeLineRegex(normLine(line))

\* C19: an expected line of literal text matches an actual line that is
\* the same text once trailing whitespace is dropped from both.
C19_IdenticalLiteralLinesMatch ==
  (/\ OneLineCall
   /\ LiteralLine(call.expected[1])
   /\ normLine(call.expected[1]) = normLine(call.actual[1])) => call.ok

C19_Witness ==
  /\ OneLineCall
  /\ call.expected[1] = <<"$", " ">>
  /\ call.actual[1] = <<"$">>
  /\ call.ok

NoWildcardLine ==
  \A i \in 1..Len(call.expected) :
    trim(call.expected[i]) \notin {<<"...">>, <<"[...]">>}

\* C20: without a wildcard line a match pairs the lines one to one; when
\* the expected lines match the first actual lines and actual lines are
\* left the call fails with "extra actual lines", when the actual lines
\* match the first expected lines and expected lines are left it fails
\* with "missing actual line"; no expected line matches no actual line only.
C20_LinesAlignOneToOne ==
  (call.made /\ NoWildcardLine) =>
    LET ne == Len(call.expected)
        na == Len(call.actual)
    IN  /\ call.ok => ne = na
        /\ (/\ na > ne
            /\ MatchFrom(call.expected, SubSeq(call.actual, 1, ne),
                         call.before).ok)
             => call.msg = "extra actual lines"
        /\ (/\ ne > na
            /\ MatchFrom(SubSeq(call.expected, 1, na), call.actual,
                         call.before).ok)
             => call.msg = "missing actual line"
        /\ ne = 0 => (call.ok <=> na = 0)

C20_Witness ==
  /\ call.made
  /\ call.expected = <<<<"a">>>>
  /\ call.actual = <<<<"a">>, <<".">>>>
  /\ call.msg = "extra actual lines"

C20_WitnessMissing ==
  /\ call.made
  /\ call.expected = <<<<"a">>, <<"{{id}}">>>>
  /\ call.actual = <<<<"a">>>>
  /\ call.msg = "missing actual line"

C20_WitnessEmpty ==
  /\ call.made
  /\ call.expected = <<>>
  /\ call.actual = <<>>
  /\ call.ok

(***************************************************************************)
(* Properties of the run of the documents.                                 *)
(***************************************************************************)
EmptyState ==
  /\ envFile = [n \in Names |-> "absent"]
  /\ cwdFile = RunnerCwd
  /\ funcFile = {}

\* C11: when a block with the reset option is about to run its first
\* command, the saved env is empty, the saved cwd is the starting
\* directory, no function is saved and the capture table is empty.
C11_ResetStartsFromEmptyState ==
  (phase = "run" /\ inBlock = 0 /\ firstStep /\ blockOpts.reset) =>
    (EmptyState /\ capsStdout = NoCaps)

\* C12: every command of a block comes after the beforeEach of the block
\* and, once the runner has gone on to the next block or is done with the
\* document, before an afterEach; and when the runner is done with the
\* document afterAll was invoked, whether the blocks matched or not.
C12_HooksAroundEveryBlock ==
  /\ \A i \in 1..Len(log) :
       log[i] = "command" =>
         \E j \in 1..(i - 1) :
           /\ log[j] = "beforeEach"
           /\ \A m \in (j + 1)..(i - 1) : log[m] # "afterEach"
  /\ phase \in {"between", "idle", "crashed"} =>
       \A i \in 1..Len(log) :
         log[i] = "command" =>
           \E j \in (i + 1)..Len(log) : log[j] = "afterEach"
  /\ (phase \in {"idle", "crashed"} /\ docs > 0) => Logged("afterAll")

\* C14: a document that was not itself processed earlier in the run
\* starts from the empty state and an empty capture table, whatever the
\* documents before it did.
C14_DocumentsShareNothing ==
  (/\ phase = "between" /\ blocks = 0 /\ log = <<>>
   /\ \A k \in DOMAIN disk : disk[k].path # docPath) =>
    (EmptyState /\ capsStdout = NoCaps)

(***************************************************************************)
(* Properties of the order of the commands.                                *)
(***************************************************************************)
\* C13: the commands of a document run in source order: a command runs
\* after every command of the blocks above its own, and after the commands
\* above it in its own block.
C13_SourceOrder ==
  \A i, j \in 1..Len(log) :
    i < j =>
      \/ log[i].block < log[j].block
      \/ log[i].block = log[j].block /\ log[i].command < log[j].command

(***************************************************************************)
(* Properties of the diagnostics of the matcher.                           *)
(***************************************************************************)
\* C21: when an expected line that is one capture token of a bound name,
\* in the {{id}}, {{id:*}} or {{id:/./}} form, meets a line that the token
\* would take with an empty table and that is not the bound value, the
\* call fails with the capture mismatch message, not the line mismatch one.
C21_CaptureConflictDiagnostic ==
  (/\ OneLineCall
   /\ call.expected[1] \in {<<t>> : t \in CaptureTokens}
   /\ call.before["id"].bound
   /\ matchLines(call.expected, call.actual, NoCaps).ok
   /\ normLine(call.actual[1]) # call.before["id"].val) =>
    (~call.ok /\ call.msg = "capture mismatch")

(***************************************************************************)
(* Properties of the verdict on a block.  They speak of the block judged   *)
(* last: its text in the document, the results of its commands and the     *)
(* verdict.                                                                *)
(***************************************************************************)
JudgedText == FencesOf(md)[judged.fence].text

\* The lines written after the k-th command line of a block and before
\* the next command line.
WrittenAfter(text, k) ==
  LET cmds   == {i \in 1..Len(text) : StartsWith(text[i], <<"$", " ">>)}
      Nth(n) == CHOOSE i \in cmds : Cardinality({j \in cmds : j <= i}) = n
      to     == IF k < Cardinality(cmds) THEN Nth(k + 1) - 1 ELSE Len(text)
  IN SubSeq(text, Nth(k) + 1, to)

\* The exit code the lines after a command ask for: that of the last line
\* [N], or 0.
AskedExit(lines) ==
  LET at == {i \in 1..Len(lines) : ExitLine(lines[i]).given} IN
  IF at = {} THEN 0
  ELSE ExitLine(lines[CHOOSE i \in at : \A j \in at : j <= i]).code

\* The output the lines after a command ask for.
AskedOutput(lines) ==
  LET Out(l) == /\ ~ExitLine(l).given
                /\ ~StartsWith(l, <<">", " ">>)
                /\ ~StartsWith(l, <<"!", " ">>)
  IN SelectSeq(lines, Out)

\* A block that starts with a command line: every other line of it is
\* written after a command.
StartsWithCommand == StartsWith(JudgedText[1], <<"$", " ">>)

\* C22: a block that starts with a command line and has no exit option
\* fails when one of its commands ends with an exit code other than the
\* one of the line [N] written after it, or other than 0 when there is no
\* such line.
C22_ExitCodeOfEveryCommand ==
  (/\ judged.made
   /\ StartsWithCommand
   /\ FencesOf(md)[judged.fence].info = <<>>
   /\ \E k \in 1..Len(judged.results) :
        judged.results[k].exit # AskedExit(WrittenAfter(JudgedText, k))) =>
    ~judged.passed

\* C23: a block that starts with a command line passes only when the
\* output of each of its commands matches the expectation lines written
\* after that command.
C23_OutputMatchedPerCommand ==
  (judged.made /\ StartsWithCommand /\ judged.passed) =>
    \A k \in 1..Len(judged.results) :
      matchLines(AskedOutput(WrittenAfter(JudgedText, k)),
                 judged.results[k].out, NoCaps).ok

(***************************************************************************)
(* Properties of the snapshot update.                                      *)
(***************************************************************************)
\* The command and continuation lines of a block.
CommandLines(text) ==
  LET Cmd(c) == StartsWith(c, <<"$", " ">>) \/ StartsWith(c, <<">", " ">>)
  IN SelectSeq(text, Cmd)

\* C30: when main has ended, the document written back has the fences of
\* the document read, each with its language, its options and its command
\* and continuation lines; the text of a block that did not fail is
\* unchanged; and without UPDATE the document is unchanged.
C30_UpdateRewritesFailedBlocksOnly ==
  exitStatus # -1 =>
    LET old == FencesOf(md)
        new == FencesOf(written)
    IN /\ Len(new) = Len(old)
       /\ \A k \in 1..Len(old) :
            /\ new[k].lang = old[k].lang
            /\ new[k].info = old[k].info
            /\ CommandLines(new[k].text) = CommandLines(old[k].text)
            /\ verdicts[k] # "fail" => new[k].text = old[k].text
       /\ ~update => written = md

\* A failed block with a continuation line was rewritten to another
\* length, and the passing block after it was left alone.
C30_Witness ==
  /\ exitStatus # -1
  /\ update
  /\ verdicts = <<"fail", "pass">>
  /\ Len(written) # Len(md)
  /\ \E i \in 1..Len(FencesOf(md)[1].text) :
       StartsWith(FencesOf(md)[1].text[i], <<">", " ">>)
  /\ FencesOf(written)[2].text = FencesOf(md)[2].text

(***************************************************************************)
(* Properties of the tally of the run.                                     *)
(***************************************************************************)
\* C24: in the command-line runner no block ends the run before the
\* blocks after it are run, the failed blocks are among the blocks
\* counted, and the process ends with a status other than 0 exactly when
\* a block was counted as failed.
C24_FailuresAreTalliedNotFatal ==
  runner = "cli" =>
    /\ phase # "crashed"
    /\ failures <= total
    /\ exitStatus # -1 => (exitStatus # 0 <=> failures > 0)

(***************************************************************************)
(* Properties of the test ids.                                             *)
(***************************************************************************)
\* C25: in a document with two blocks of the same test id no command is
\* run.
C25_DuplicateIdAbortsBeforeExecution ==
  (\E i \in BlocksOf(shape) : SeenTestId(shape, i)) => log = <<>>

(***************************************************************************)
(* Properties of the readiness wait and of the ceiling of a session.       *)
(***************************************************************************)
\* C26: the readiness wait before the first command of a session goes
\* back to sleep only while less than startupDelay has elapsed.
C26_ReadinessWaitWithinStartupDelay ==
  (pc = "ready" /\ firstExecute) => elapsed < StartupDelay

\* C28: a step in which execute returns at the ceiling leaves the
\* subprocess and its streams as they were: nothing is closed, ended or
\* killed; and when the next execute is in its completion loop after such
\* a return, its command is the last one written to the stdin of the
\* subprocess.
C28_TimeoutKeepsTheSession ==
  [][ /\ (Returned /\ result'.how = "maxwait") =>
            /\ closed' = closed
            /\ kills' = kills
            /\ stdinEnds' = stdinEnds
            /\ terminalCloses' = terminalCloses
            /\ procExited' = procExited
            /\ readerActive' = readerActive
      /\ (result'.how = "maxwait" /\ pc' = "wait" /\ result'.seq < cmdIdx') =>
            /\ Len(stdinLog') = cmdIdx'
            /\ stdinLog'[cmdIdx'] = command'
    ]_vars

\* After a return at the ceiling the session is running, and the next
\* command has been written to it.
C28_Witness ==
  /\ result.how = "maxwait"
  /\ result.seq < cmdIdx
  /\ pc = "wait"
  /\ isRunning
  /\ kills = 0
  /\ Len(stdinLog) = result.seq + 1

(***************************************************************************)
(* Properties of the result of a one-shot command.                         *)
(***************************************************************************)
\* C27: the result of a command that was still running at the timeout has
\* the exit code 124 and the timeout text as its stderr, the process was
\* sent the kill, and the call returned without awaiting its exit.
C27_TimeoutKillsAndFails ==
  (lastRun.via # "none" /\ lastRun.cmd.end = "hang") =>
    /\ lastRun.exitCode = TimeoutExitCode
    /\ lastRun.stderr = "timed out"
    /\ lastRun.killed
    /\ ~lastRun.awaitedExit

C27_Witness ==
  /\ lastRun.via = "runBlock"
  /\ lastRun.cmd.end = "hang"
  /\ lastRun.cmd.status = 0
  /\ lastRun.exitCode = TimeoutExitCode

\* C29: the exit code of the result of a command that ended before the
\* timeout is the exit status of the command.
C29_ExitCodeIsTheCommands ==
  (lastRun.via # "none" /\ lastRun.cmd.end # "hang") =>
    lastRun.exitCode = lastRun.cmd.status

(***************************************************************************)
(* Properties of the beforeAll hook.                                       *)
(***************************************************************************)
CountLogged(event) == Cardinality({i \in 1..Len(log) : log[i] = event})

\* C31: beforeAll is invoked exactly once for a document: never twice,
\* once when the runner is done with a document that had a block, and it
\* is invoked when a command of the document has run and no later than the
\* start of the second block, never between two commands of one block.
C31_BeforeAllOnceAfterFirstBlock ==
  [][/\ CountLogged("beforeAll")' <= 1
     /\ (phase' = "idle" /\ docs' > 0 /\ blocks' > 0) =>
          CountLogged("beforeAll")' = 1
     /\ (~Logged("beforeAll") /\ Logged("beforeAll")') =>
          /\ Logged("command")'
          /\ phase' = "run" => firstStep']_vars

(***************************************************************************)
(* Properties of the text a PtySession returns.                            *)
(***************************************************************************)
\* What the subprocess wrote after the echo of the command.
OwnOutput(raw, cmd) == SliceFrom(raw, Len(Echoed(cmd)) + 1)

EchoCame(raw, cmd) ==
  /\ Len(raw) >= Len(Echoed(cmd))
  /\ SubSeq(raw, 1, Len(Echoed(cmd))) = Echoed(cmd)

\* C32: when the terminal echoed the command before the command's output,
\* the text PtySession.execute returns is the command's output with its
\* line ends normalized: the echo is gone and no line of the output is.
C32_EchoRemovedOutputKept ==
  (usePty /\ result.how # "none" /\ EchoCame(result.raw, command)) =>
    result.stdout = NormalizeLineEndings(OwnOutput(result.raw, command))

\* The same for the commands of one line.
C32_OneLineCommand ==
  (usePty /\ result.how # "none" /\ EchoCame(result.raw, command)
     /\ ~Includes(command, <<"\n">>)) =>
    result.stdout = NormalizeLineEndings(OwnOutput(result.raw, command))

(***************************************************************************)
(* The stdout of a result on its way to the matcher: runBlock splits the   *)
(* text into normalized lines and drops the empty lines at the end.        *)
(***************************************************************************)
MaxTextLen == 5

OutputTexts == UNION {[1..n -> {"a", " ", "\r", "\n"}] : n \in 0..MaxTextLen}

\* The result of one command is followed.
SplitOutput(text) ==
  /\ ~split.made
  /\ split' = [made |-> TRUE, text |-> text, lines |-> splitNorm(text),
               stdout |-> PopEmpty(splitNorm(text))]
  /\ UNCHANGED <<sessionVars, shellVars, matchVars, docVars, fileVars>>

LinesInit ==
  /\ usePty = FALSE
  /\ useOsc133 = FALSE
  /\ Constructed
  /\ ShellIdle
  /\ MatchIdle
  /\ runner = "cli"
  /\ DocIdle
  /\ FileIdle

LinesNext == \E text \in OutputTexts : SplitOutput(text)

LinesSpec == LinesInit /\ [][LinesNext]_vars

(***************************************************************************)
(* Properties of the lines handed to the matcher.                          *)
(***************************************************************************)
\* The lines of a text in which \r\n, \r and \n each end a line.
LinesOf(text) ==
  LET lines == SplitLines(NormalizeLineEndings(text))
  IN  [i \in 1..Len(lines) |-> normLine(lines[i])]

\* C33: the lines made of a text are the lines of the text, with \r\n, a
\* lone \r and \n each taken as a line break, without their trailing
\* whitespace.
C33_LinesAreNormalized ==
  split.made => split.stdout = PopEmpty(LinesOf(split.text))

\* The same for the texts without a \r that no \n follows.
C33_NoLoneCr ==
  (split.made /\ ReplaceCrLf(split.text) = NormalizeLineEndings(split.text)) =>
    /\ split.stdout = PopEmpty(LinesOf(split.text))
    /\ \A i \in 1..Len(split.lines) :
         split.lines[i] = <<>> \/ split.lines[i][Len(split.lines[i])] = "a"

(***************************************************************************)
(* Properties of the Done marker that ends an execute call.                *)
(***************************************************************************)
\* C34: when execute returns because of a Done marker, the marker it saw
\* (the first one of the buffer) is one the subprocess wrote for the
\* command of this call, not for an earlier command.
C34_DoneMarkerOfThisCommand ==
  [][(Returned /\ result'.how = "marker") =>
        markers'.inBuffer[1] \in {0, result'.seq}]_vars

\* The same for a session with one command only.
C34_FirstCommand ==
  [][(Returned /\ result'.how = "marker" /\ result'.seq = 1) =>
        markers'.inBuffer[1] \in {0, result'.seq}]_vars

(***************************************************************************)
(* Properties of the capture table after a failed call.                    *)
(***************************************************************************)
\* C35: when matchLines reports a failure, the capture table holds the
\* bindings it held before the call and no other.
C35_FailureKeepsTable ==
  (call.made /\ ~call.ok /\ call.msg # "throw") => capsStdout = call.before

\* The same for the calls whose first expected line is the one that fails.
C35_FirstLineFails ==
  (call.made /\ ~call.ok /\ call.msg # "throw"
     /\ (call.actual = <<>> \/ call.expected = <<>>
         \/ ~MatchFrom(<<normLine(call.expected[1])>>,
                       <<normLine(call.actual[1])>>, call.before).ok)) =>
    capsStdout = call.before

\* C36: the blocks of a document have pairwise distinct test ids, and the
\* runner never ends a document because of a test id it has seen.
C36_TestIdsPairwiseDistinct ==
  /\ \A i, j \in BlocksOf(shape) :
       i # j => generateTestId(shape, i) # generateTestId(shape, j)
  /\ phase # "aborted"

\* The same for the documents without a heading named Block.
C36_NoHeadingNamedBlock ==
  (\A h \in 1..Len(shape) : shape[h] # "h2b") =>
    /\ \A i, j \in BlocksOf(shape) :
         i # j => generateTestId(shape, i) # generateTestId(shape, j)
    /\ phase # "aborted"

(***************************************************************************)
(* Properties of the reset option within its block.                        *)
(***************************************************************************)
\* A later command of the block is about to run: in testFile the loop of
\* runBlock is past its first command, in the framework the step that has
\* begun is not the first of its block.
LaterCommandNext ==
  /\ phase = "run"
  /\ IF runner = "cli" THEN inBlock > 0 /\ inBlock < NumCommands
     ELSE inBlock = 0 /\ ~firstStep

\* C37: when a later command of a reset block is about to run, the state
\* files hold what the command before it left: the reset of the block does
\* not come between two commands of the block.
C37_ResetOncePerBlock ==
  (LaterCommandNext /\ blockOpts.reset) =>
    /\ envFile = SaveEnv(lastRun.endEnv)
    /\ cwdFile = lastRun.endCwd
    /\ funcFile = lastRun.endFuncs

\* The same for the command-line runner.
C37_Cli ==
  (runner = "cli" /\ LaterCommandNext /\ blockOpts.reset) =>
    /\ envFile = SaveEnv(lastRun.endEnv)
    /\ cwdFile = lastRun.endCwd
    /\ funcFile = lastRun.endFuncs

(***************************************************************************)
(* Properties of the background readers of a CmdSession.                   *)
(***************************************************************************)
\* C38: once close() has set the closed flag of a CmdSession, nothing is
\* appended to its two buffers any more, and when close() has resolved
\* neither reader is in its loop.
C38_ReadersStopAtClose ==
  [][ /\ (~usePty /\ closed) =>
            /\ Len(stdoutBuffer') <= Len(stdoutBuffer)
            /\ Len(stderrBuffer') <= Len(stderrBuffer)
      /\ (~usePty /\ closing' = "done") =>
            readerActive' = [stdout |-> FALSE, stderr |-> FALSE]
    ]_vars

\* The same from the moment close() has resolved.
C38_AfterCloseResolved ==
  [][ /\ (~usePty /\ closing = "done") =>
            /\ stdoutBuffer' = stdoutBuffer
            /\ stderrBuffer' = stderrBuffer
      /\ (~usePty /\ closing' = "done") =>
            readerActive' = [stdout |-> FALSE, stderr |-> FALSE]
    ]_vars

(***************************************************************************)
(* Properties of runBlock around its session.                              *)
(***************************************************************************)
\* C39: when runBlock has returned or has thrown, close() was called and
\* has resolved: the session is closed, no execute call is unresolved, and
\* the subprocess has exited.  It throws when an execute call threw, and
\* returns after the last command otherwise.
C39_SessionClosedOnEveryExit ==
  /\ rb \in {"returned", "threw"} =>
       /\ closeCalls >= 1
       /\ closed
       /\ closing = "done"
       /\ inFlight = 0
       /\ procExited
  /\ rb = "threw" => threw
  /\ rb = "returned" => (~threw /\ cmdIdx = NumCommands)

\* The same with a subprocess that has exited or was sent the kill.
C39_CloseCalledAndAwaited ==
  /\ rb \in {"returned", "threw"} =>
       /\ closeCalls >= 1
       /\ closed
       /\ closing = "done"
       /\ inFlight = 0
       /\ procExited \/ kills >= 1
       /\ ~usePty => procExited
  /\ rb = "threw" => threw
  /\ rb = "returned" => (~threw /\ cmdIdx = NumCommands)

(***************************************************************************)
(* Properties of the rewritten block read again.                           *)
(***************************************************************************)
\* The block of the last replacement, parsed as testFile parses a block.
RewrittenFence == FencesOf(replacements[Len(replacements)].newText)[1]

Commands_(steps) == [k \in 1..Len(steps) |-> steps[k].cmd]

\* C40: when a failed block has been rewritten, the rewritten block has
\* the commands of the block, its expected stdout is the stdout of the run
\* and its wanted exit code the exit code of the run, and the block passes
\* with the results that made it fail.
C40_UpdateRoundTrip ==
  (judged.made /\ ~judged.passed /\ update) =>
    LET f      == RewrittenFence
        steps  == parseBlock(f.text)
        n      == Len(judged.results)
        stdout == flatMap([k \in 1..n |-> judged.results[k].out])
    IN  /\ Commands_(steps) = Commands_(judged.steps)
        /\ flatMap([k \in 1..Len(steps) |-> steps[k].stdout]) = stdout
        /\ CliPassed(f.info, steps, judged.results, capsStdout)

\* The same for the blocks without an exit option that start with a
\* command and whose commands print no line that parseBlock reads as an
\* exit code.
C40_PlainBlocks ==
  (judged.made /\ ~judged.passed /\ update
     /\ ~InfoExit(FencesOf(md)[judged.fence].info).given
     /\ StartsWith(FencesOf(md)[judged.fence].text[1], <<"$", " ">>)
     /\ \A k \in 1..Len(judged.results) :
          \A i \in 1..Len(judged.results[k].out) :
             ~ExitLine(judged.results[k].out[i]).given) =>
    LET f      == RewrittenFence
        steps  == parseBlock(f.text)
        n      == Len(judged.results)
        stdout == flatMap([k \in 1..n |-> judged.results[k].out])
    IN  /\ Commands_(steps) = Commands_(judged.steps)
        /\ flatMap([k \in 1..Len(steps) |-> steps[k].stdout]) = stdout
        /\ CliPassed(f.info, steps, judged.results, capsStdout)

====
